---- MODULE Spec2Model ----
(***************************************************************************)
(* Model of the hydragri pipeline:                                         *)
(*   - the daily water-balance recurrence (src/scripts/process_gap_with_kc *)
(*     .py compute_balance, and the per-row loops of src/process_gap.py    *)
(*     and src/process_gap_with_kc.py),                                    *)
(*   - the streaming daily->weekly roll-up (src/scripts/aggregate.py       *)
(*     aggregate_temporal) and its non-streaming predecessor               *)
(*     (src/aggregate.py aggregate_temporal),                              *)
(*   - the multi-scale grid aggregation (aggregate_spatial of both files). *)
(*                                                                         *)
(* Numbers.  Water quantities of the recurrence are fixed-point integers   *)
(* in tenths of a millimetre; Kc is in tenths.  Means are exact rationals  *)
(* <<numerator, denominator>> in lowest terms.  Coordinates are integers   *)
(* in the unit of the input file.                                          *)
(***************************************************************************)
EXTENDS Integers, Sequences, FiniteSets, TLC

VARIABLES
    \* ---- water balance (one point's series) ----
    variant,        \* "compute_balance" (src/scripts) or "loop" (src/process_gap*.py)
    ru_max,         \* RU_mm of the point, tenths of mm
    kc,             \* crop coefficient, tenths
    stock,          \* running reservoir state, tenths of mm
    cur_year,       \* compute_balance's cur_year (-1 before the first day)
    records,        \* emitted (year, P, ETP, Stock, Gap) records of the point
    \* ---- temporal aggregation ----
    input,          \* the daily CSV: sequence of data rows, point-major
    in_cols,        \* the columns LAMBX, LAMBY, day that the header of the daily CSV has
    chunksize,      \* rows per chunk of pd.read_csv
    pos,            \* number of input rows consumed so far
    prev_tail,      \* rows carried to the next chunk (<<>> is None)
    header_written, \* the header_written flag
    out_exists,     \* whether the output file exists
    out_lines,      \* lines of the output file: a header line or a weekly row
    chunks,         \* src/aggregate.py: the list of per-chunk aggregates
    tpc,            \* position in aggregate_temporal
    trun,           \* number of the run of aggregate_temporal on this input (1 or 2)
    prev_out,       \* lines of the output file when the previous run ended
    \* ---- spatial aggregation ----
    impl,           \* "scripts" (src/scripts/aggregate.py) or "legacy" (src/aggregate.py)
    scale_level,    \* the scale_level argument: n for 'level_n', -1 for None, -2 for ''
    dataset,        \* the input file of aggregate_spatial
    df,             \* the loaded frame, with the per-level grid columns
    coord_unit,     \* the detected conversion factor
    todo,           \* levels still to process, in order
    level,          \* the level processed last (0 before the first)
    metadata,       \* the metadata file
    output_files,   \* the output_files dict: level -> artifact written by this run
    spc,            \* position in aggregate_spatial
    disk,           \* the per-level artifacts in the output directory
    prev_disk,      \* the artifacts in the output directory when the previous run ended
    run,            \* number of the run of aggregate_spatial on this input (1 or 2)
    raised,         \* the exception that ended aggregate_spatial, if any
    \* ---- water-balance scripts (all points) ----
    script,         \* "scripts" (src/scripts/process_gap_with_kc.py) or "legacy"
                    \* (src/process_gap_with_kc.py)
    sim,            \* the rows of the SIM file, in file order
    widx,           \* number of points of gdf_joined iterated so far
    buf,            \* buf (list of per-point chunks) / results (list of rows)
    whdr,           \* header_written
    wfile,          \* the output file: [exists, lines]
    wlog,           \* points reported by a WARNING line
    wpc,            \* position in the script
    wrun,           \* number of the run of the script on this input (1 or 2)
    wprev,          \* the output file when the previous run ended
    \* ---- combined workflow and command line ----
    argv,           \* sys.argv
    in_exists,      \* whether the input path names an existing file
    input_file,     \* the input_file argument of main / the combined workflow
    mode,           \* the temporal_only and spatial_only arguments
    output_dir,     \* the output_dir / output_base_dir argument ("None" when absent)
    base_grid_size, \* the base_grid_size argument
    weekly_file,    \* the path of the weekly file ("None" before it is set)
    spatial_dir,    \* the output directory of aggregate_spatial ("None" before it is set)
    source,         \* the input_file argument of aggregate_spatial ("None" before the call)
    summary,        \* the file aggregation_summary.txt
    mpc,            \* position in main / aggregate_temporal_and_spatial
    exit_code       \* exit status of the process (-1 while it runs)

balVars == <<variant, ru_max, kc, stock, cur_year, records>>
tmpVars == <<input, in_cols, chunksize, pos, prev_tail, header_written, out_exists,
             out_lines, chunks, tpc, trun, prev_out>>
spaVars == <<impl, scale_level, dataset, df, coord_unit, todo, level, metadata,
             output_files, spc, disk, prev_disk, run, raised>>
wrVars == <<script, sim, widx, buf, whdr, wfile, wlog, wpc, wrun, wprev>>
cliVars == <<argv, in_exists, input_file, mode, output_dir, base_grid_size, weekly_file,
             spatial_dir, source, summary, mpc, exit_code>>
vars == <<balVars, tmpVars, spaVars, wrVars, cliVars>>

(***************************************************************************)
(* Bounds of the model.                                                    *)
(***************************************************************************)
MaxDays == 3        \* days simulated for one point
MaxRows == 4        \* rows of a daily input file
MaxChunk == 3       \* largest chunksize tried
MaxRecs == 2        \* records of an input file of aggregate_spatial

(***************************************************************************)
(* Generic helpers.                                                        *)
(***************************************************************************)
Range(s) == {s[i] : i \in 1..Len(s)}

Abs(n) == IF n < 0 THEN -n ELSE n

RECURSIVE GCD(_, _)
GCD(a, b) == IF b = 0 THEN a ELSE GCD(b, a % b)

\* The rational n/d (d > 0) in lowest terms.
Rat(n, d) ==
    LET g == GCD(Abs(n), d) IN <<n \div g, d \div g>>

RatAdd(q, r) == Rat(q[1] * r[2] + r[1] * q[2], q[2] * r[2])

RatDivInt(q, k) == Rat(q[1], q[2] * k)

RECURSIVE SumSeq(_)
SumSeq(s) == IF s = <<>> THEN 0 ELSE Head(s) + SumSeq(Tail(s))

RECURSIVE RatSum(_)
RatSum(s) == IF s = <<>> THEN <<0, 1>> ELSE RatAdd(Head(s), RatSum(Tail(s)))

\* The multiset of the elements of a sequence.
BagOf(s) == [r \in Range(s) |-> Cardinality({i \in 1..Len(s) : s[i] = r})]

(***************************************************************************)
(* WATER BALANCE                                                           *)
(***************************************************************************)
RUSet == {0, 500, 1000}     \* RU_max values tried: 0, 50 and 100 mm
KcSet == {5, 10}            \* Kc values tried: 0.5 and 1.0
PSet == {0, 200}            \* daily precipitation, mm
ETPSet == {5, 10, 95}       \* daily evapotranspiration, mm
FirstYear == 2020

\* mm -> tenths of mm
Tenths(mm) == mm * 10

\* compute_balance lines 93-95: the reservoir is refilled when the year of
\* the row differs from cur_year (also on the first row, cur_year = -1).
ResetStock(s, cy, y, ru) == IF y # cy THEN ru ELSE s

RawBalanceNoKc(s, p, e, k) == s + Tenths(p) - Tenths(e)

\* stock = stock + pre[i] - etp[i] * kc
RawBalance(s, p, e, k) == s + Tenths(p) - e * k

CapNoClamp(s, ru) == s

\* if stock > ru_max: stock = ru_max
Cap(s, ru) == IF s > ru THEN ru ELSE s

\* if stock < 0: gap = -stock ... else gap = 0
GapOf(s) == IF s < 0 THEN -s ELSE 0

FloorStockNegative(s) == s

\* if stock < 0: stock = 0.0
FloorStock(s) == IF s < 0 THEN 0 ELSE s

LastYear == IF records = <<>> THEN FirstYear ELSE records[Len(records)].year

YearChoices == IF records = <<>> THEN {FirstYear} ELSE {LastYear, LastYear + 1}

Emit(y, p, e, capped) ==
    [year |-> y, P |-> p, ETP |-> e, Stock |-> FloorStock(capped), Gap |-> GapOf(capped)]

\* One iteration of the loop of compute_balance (src/scripts).
ComputeBalanceStep ==
    /\ variant = "compute_balance"
    /\ Len(records) < MaxDays
    /\ \E p \in PSet, e \in ETPSet, y \in YearChoices :
         LET s0 == ResetStock(stock, cur_year, y, ru_max)
             capped == Cap(RawBalance(s0, p, e, kc), ru_max)
         IN /\ cur_year' = y
            /\ stock' = FloorStock(capped)
            /\ records' = Append(records, Emit(y, p, e, capped))
    /\ UNCHANGED <<variant, ru_max, kc, tmpVars, spaVars, wrVars, cliVars>>

\* One iteration of the row loop of src/process_gap.py and
\* src/process_gap_with_kc.py: no yearly refill.
LoopStep ==
    /\ variant = "loop"
    /\ Len(records) < MaxDays
    /\ \E p \in PSet, e \in ETPSet, y \in YearChoices :
         LET capped == Cap(RawBalance(stock, p, e, kc), ru_max)
         IN /\ stock' = FloorStock(capped)
            /\ records' = Append(records, Emit(y, p, e, capped))
    /\ UNCHANGED <<variant, ru_max, kc, cur_year, tmpVars, spaVars, wrVars, cliVars>>

BalInit ==
    /\ variant \in {"compute_balance", "loop"}
    /\ ru_max \in RUSet
    /\ kc \in KcSet
    /\ stock = ru_max
    /\ cur_year = -1
    /\ records = <<>>

\* The columns of a daily file that aggregate_temporal reads by name before
\* it groups.
DailyCols == {"LAMBX", "LAMBY", "day"}

\* The coordinate columns.
CoordCols == {"LAMBX", "LAMBY"}

TmpIdle ==
    /\ input = <<>>
    /\ in_cols = DailyCols
    /\ chunksize = 1
    /\ pos = 0
    /\ prev_tail = <<>>
    /\ header_written = FALSE
    /\ out_exists = FALSE
    /\ out_lines = <<>>
    /\ chunks = <<>>
    /\ tpc = "idle"
    /\ trun = 1
    /\ prev_out = <<>>

\* No exception raised.
NoError == [type |-> "", choices |-> {}]

SpaIdle ==
    /\ impl = "scripts"
    /\ scale_level = -1
    /\ dataset = [unit |-> "km", cols |-> {}, coords |-> CoordCols, rows |-> <<>>]
    /\ df = <<>>
    /\ coord_unit = 0
    /\ todo = <<>>
    /\ level = 0
    /\ metadata = [exists |-> FALSE]
    /\ output_files = <<>>
    /\ spc = "idle"
    /\ disk = <<>>
    /\ prev_disk = <<>>
    /\ run = 1
    /\ raised = NoError

BalIdle ==
    /\ variant = "loop"
    /\ ru_max = 0
    /\ kc = 0
    /\ stock = 0
    /\ cur_year = -1
    /\ records = <<>>

WrIdle ==
    /\ script = "scripts"
    /\ sim = <<>>
    /\ widx = 0
    /\ buf = <<>>
    /\ whdr = FALSE
    /\ wfile = [exists |-> FALSE, lines |-> <<>>]
    /\ wlog = <<>>
    /\ wpc = "idle"
    /\ wrun = 1
    /\ wprev = [exists |-> FALSE, lines |-> <<>>]

\* The path of the input file on the command line or in a direct call.
InputPath == "data/gap.csv"

\* No command line and no combined workflow; src is the input_file argument
\* of a direct call of aggregate_spatial ("None" when there is none).
NoCli(src) ==
    /\ argv = <<>>
    /\ in_exists = TRUE
    /\ input_file = "None"
    /\ mode = [temporal_only |-> FALSE, spatial_only |-> FALSE]
    /\ output_dir = "None"
    /\ base_grid_size = 8
    /\ weekly_file = "None"
    /\ spatial_dir = "None"
    /\ source = src
    /\ summary = [exists |-> FALSE]
    /\ mpc = "idle"
    /\ exit_code = -1

CliIdle == NoCli("None")

BalanceInit == BalInit /\ TmpIdle /\ SpaIdle /\ WrIdle /\ CliIdle

BalanceNext == ComputeBalanceStep \/ LoopStep

BalanceSpec == BalanceInit /\ [][BalanceNext]_vars

(***************************************************************************)
(* Claims on the water balance.                                            *)
(***************************************************************************)
Clamp(x, lo, hi) == IF x < lo THEN lo ELSE IF x > hi THEN hi ELSE x

Max(a, b) == IF a > b THEN a ELSE b

\* C1. Balance boundedness: every emitted record has 0 <= Stock <= RU_max,
\* Gap >= 0, and Gap > 0 only with Stock = 0, on every day, the first day
\* and the first day after a yearly refill included.
C1_Bounded ==
    \A d \in 1..Len(records) :
        /\ 0 <= records[d].Stock
        /\ records[d].Stock <= ru_max
        /\ records[d].Gap >= 0
        /\ (records[d].Gap > 0 => records[d].Stock = 0)

\* A deficit day that is the first day after a yearly refill, after a day
\* that ended below capacity.
C1_Witness ==
    /\ variant = "compute_balance"
    /\ Len(records) >= 2
    /\ records[Len(records)].year # records[Len(records) - 1].year
    /\ records[Len(records)].Gap > 0
    /\ records[Len(records) - 1].Stock < ru_max

\* The reservoir state a day starts from, as the claim states it:
\* Stock(d-1), and RU_max on the first day.
PrevStock(d) == IF d = 1 THEN ru_max ELSE records[d - 1].Stock

\* The state a day starts from in the code: RU_max also on the first day of
\* a calendar year, where compute_balance refills the reservoir.
BaseStock(d) ==
    IF d = 1 \/ (variant = "compute_balance" /\ records[d].year # records[d - 1].year)
    THEN ru_max
    ELSE records[d - 1].Stock

FollowsFormula(d, base) ==
    LET raw == base + Tenths(records[d].P) - records[d].ETP * kc
    IN /\ records[d].Stock = Clamp(raw, 0, ru_max)
       /\ records[d].Gap = Max(0, -raw)
       /\ (records[d].Stock < ru_max => raw = records[d].Stock - records[d].Gap)
       /\ (raw > ru_max => records[d].Stock = ru_max /\ records[d].Gap = 0)

IsScenario ==
    /\ ru_max = 1000
    /\ kc = 10
    /\ Len(records) = 3
    /\ records[3].year = records[1].year
    /\ <<records[1].P, records[1].ETP>> = <<0, 10>>
    /\ <<records[2].P, records[2].ETP>> = <<0, 95>>
    /\ <<records[3].P, records[3].ETP>> = <<200, 5>>

ScenarioResult ==
    /\ <<records[1].Stock, records[1].Gap>> = <<900, 0>>
    /\ <<records[2].Stock, records[2].Gap>> = <<0, 50>>
    /\ <<records[3].Stock, records[3].Gap>> = <<1000, 0>>

\* C4 as stated: with raw(d) = Stock(d-1) + P(d) - ETP(d)*Kc and
\* Stock(day0) = RU_max, every emitted day has Stock = clamp(raw, 0, RU_max)
\* and Gap = max(0, -raw).
C4_Original ==
    \A d \in 1..Len(records) : FollowsFormula(d, PrevStock(d))

\* C4 amended: the same, where the state a day starts from is RU_max on the
\* first day of the series and, in compute_balance, on the first day of
\* every calendar year, and Stock(d-1) otherwise; the three-day scenario
\* (within one year) gives (90,0), (0,5), (100,0).
C4_Formula ==
    /\ \A d \in 1..Len(records) : FollowsFormula(d, BaseStock(d))
    /\ (IsScenario => ScenarioResult)

\* The scenario has run to its third day, where 95 mm of excess is dropped.
C4_Witness ==
    /\ IsScenario
    /\ variant = "compute_balance"
    /\ RawBalance(records[2].Stock, records[3].P, records[3].ETP, kc) = 1950

\* The records the recurrence of the reference formula yields for the
\* inputs ins, from the reservoir state s left by a day of year y.
RECURSIVE Replay(_, _, _)
Replay(s, y, ins) ==
    IF ins = <<>> THEN <<>>
    ELSE LET r == Head(ins)
             base == IF variant = "compute_balance" /\ r.year # y THEN ru_max ELSE s
             raw == base + Tenths(r.P) - r.ETP * kc
         IN <<[year |-> r.year, P |-> r.P, ETP |-> r.ETP,
               Stock |-> Clamp(raw, 0, ru_max), Gap |-> Max(0, -raw)]>>
            \o Replay(Clamp(raw, 0, ru_max), r.year, Tail(ins))

\* The days after day d.
After(d) == SubSeq(records, d + 1, Len(records))

\* C15 as stated: after a day d with Gap(d) > 0 the reservoir state is 0
\* and raw(d+1) = P(d+1) - ETP(d+1)*Kc.
C15_Original ==
    \A d \in 1..Len(records) :
        records[d].Gap > 0 =>
            /\ records[d].Stock = 0
            /\ d < Len(records) => FollowsFormula(d + 1, 0)

\* C15 amended: after a day d with Gap(d) > 0 the reservoir state is 0 and
\* raw(d+1) = P(d+1) - ETP(d+1)*Kc, unless d+1 is the first day of a
\* calendar year in compute_balance, where raw(d+1) = RU_max + P(d+1) -
\* ETP(d+1)*Kc; in both cases all days after d are those the recurrence
\* yields from an empty reservoir, whatever the magnitude of Gap(d).
C15_NoCarry ==
    \A d \in 1..Len(records) :
        records[d].Gap > 0 =>
            /\ records[d].Stock = 0
            /\ d < Len(records) => FollowsFormula(d + 1, BaseStock(d + 1))
            /\ After(d) = Replay(0, records[d].year, After(d))

\* A deficit day followed by two days of the same year, the first of which
\* ends with water in the reservoir.
C15_Witness ==
    /\ Len(records) = 3
    /\ records[1].Gap > 0
    /\ records[3].year = records[1].year
    /\ records[2].Stock > 0
    /\ records[3].Stock < ru_max

\* C16 as stated: the reservoir is refilled at a calendar-year boundary
\* only when a configuration flag of the simulator selects it.  The
\* simulators take no such flag, so none refills: the Stock of the first
\* day of a year follows from the Stock of the day before.
C16_Claim ==
    /\ Len(records) >= 1 => FollowsFormula(1, ru_max)
    /\ \A d \in 2..Len(records) :
          records[d].year # records[d - 1].year => FollowsFormula(d, records[d - 1].Stock)

(***************************************************************************)
(* TEMPORAL AGGREGATION                                                    *)
(***************************************************************************)
\* Daily (P, ETP, Stock, Gap) vectors the input rows are drawn from, in mm:
\* the three days of the RU_max = 100 scenario.
Metrics ==
    { [P |-> 0, ETP |-> 10, Stock |-> 90, Gap |-> 0],
      [P |-> 0, ETP |-> 95, Stock |-> 0, Gap |-> 5],
      [P |-> 200, ETP |-> 5, Stock |-> 100, Gap |-> 0] }

MetricCols == {"P", "ETP", "Stock", "Gap"}

\* A row of the daily file.  LAMBX and LAMBY are determined by the point
\* (point = "(LAMBX,LAMBY)"), so the point stands for the three key columns.
\* day is the day of the year FirstYear.
DailyRow(pt, d, m) ==
    [point |-> pt, day |-> d, P |-> m.P, ETP |-> m.ETP, Stock |-> m.Stock, Gap |-> m.Gap]

\* The rows that can follow s in a point-major file whose points each hold
\* consecutive days from 5 January on: the next day of the same point, or
\* the first day of the next point.
NextRows(s) ==
    IF s = <<>>
    THEN {DailyRow(1, 5, m) : m \in Metrics}
    ELSE LET l == s[Len(s)]
         IN {DailyRow(l.point, l.day + 1, m) : m \in Metrics}
            \cup {DailyRow(l.point + 1, 5, m) : m \in Metrics}

RECURSIVE InputsOfLen(_)
InputsOfLen(n) ==
    IF n = 0 THEN {<<>>}
    ELSE UNION {{Append(s, r) : r \in NextRows(s)} : s \in InputsOfLen(n - 1)}

DailyInputs == UNION {InputsOfLen(n) : n \in 0..MaxRows}

\* chunk['day'].dt.strftime('%Y-W%W'): the year and the number of the week
\* (weeks start on Monday; days before the first Monday are week 0), here as
\* the number YYYYWW.  1 January 2020 is a Wednesday.
WeekOf(d) == FirstYear * 100 + ((d + 1) \div 7)

\* A daily row as it stands in the frame after lines 74-82: float columns
\* and the week column added.
WithWeek(r) ==
    [point |-> r.point, week |-> WeekOf(r.day),
     P |-> <<r.P, 1>>, ETP |-> <<r.ETP, 1>>, Stock |-> <<r.Stock, 1>>, Gap |-> <<r.Gap, 1>>]

MapWithWeek(s) == [i \in 1..Len(s) |-> WithWeek(s[i])]

\* The subsequence of s at the indices I.
RECURSIVE AtIndices(_, _)
AtIndices(s, I) ==
    IF I = {} THEN <<>>
    ELSE LET m == CHOOSE i \in I : \A j \in I : j <= i
         IN Append(AtIndices(s, I \ {m}), s[m])

KeyOf(r) == <<r.point, r.week>>

KeyLess(a, b) == a[1] < b[1] \/ (a[1] = b[1] /\ a[2] < b[2])

\* The keys of a set in ascending order (groupby sorts its groups).
RECURSIVE SortKeys(_)
SortKeys(K) ==
    IF K = {} THEN <<>>
    ELSE LET m == CHOOSE k \in K : \A j \in K : j = k \/ KeyLess(k, j)
         IN <<m>> \o SortKeys(K \ {m})

\* 'mean' of column c over the rows of `rows` with key k.
MeanOf(rows, k, c) ==
    LET I == {i \in 1..Len(rows) : KeyOf(rows[i]) = k}
        vals == AtIndices([i \in 1..Len(rows) |-> rows[i][c]], I)
    IN RatDivInt(RatSum(vals), Cardinality(I))

\* groupby(['point', 'LAMBX', 'LAMBY', 'week']).agg(mean)
GroupMean(rows) ==
    LET keys == SortKeys({KeyOf(r) : r \in Range(rows)})
    IN [n \in 1..Len(keys) |->
          [point |-> keys[n][1], week |-> keys[n][2],
           P |-> MeanOf(rows, keys[n], "P"), ETP |-> MeanOf(rows, keys[n], "ETP"),
           Stock |-> MeanOf(rows, keys[n], "Stock"), Gap |-> MeanOf(rows, keys[n], "Gap")]]

HeaderLine == [header |-> TRUE]

IsHeader(l) == "header" \in DOMAIN l

DataRows(lines) == SelectSeq(lines, LAMBDA l : ~IsHeader(l))

AppendCsvHeader(lines, agg, hw) == lines \o <<HeaderLine>> \o agg

\* to_csv(output_file, mode='a', header=not header_written)
AppendCsv(lines, agg, hw) == lines \o (IF hw THEN <<>> ELSE <<HeaderLine>>) \o agg

Min(a, b) == IF a < b THEN a ELSE b

\* The next chunk pd.read_csv yields.
RawChunk == SubSeq(input, pos + 1, Min(pos + chunksize, Len(input)))

InTailLastRowOnly(chunk, i) == i = Len(chunk)

\* tail_mask = chunk['point'] == chunk['point'].iloc[-1]
InTail(chunk, i) == chunk[i].point = chunk[Len(chunk)].point

TailRows(chunk) == AtIndices(chunk, {i \in 1..Len(chunk) : InTail(chunk, i)})

WholeChunk(chunk) == chunk

\* chunk = chunk[~tail_mask]
BodyRows(chunk) == AtIndices(chunk, {i \in 1..Len(chunk) : ~InTail(chunk, i)})

FlushNothing(tail) == <<>>

\* The aggregate of the trailing point written at end of stream.
FlushAgg(tail) == GroupMean(tail)

KeepStale(f) == f

\* Path(output_file).unlink(missing_ok=True)
Unlink(f) == [exists |-> FALSE, lines |-> <<>>]

\* Path(output_file).unlink(missing_ok=True) and the initialisation of the
\* loop state.
TemporalStart ==
    /\ tpc = "start"
    /\ out_exists' = Unlink([exists |-> out_exists, lines |-> out_lines]).exists
    /\ out_lines' = Unlink([exists |-> out_exists, lines |-> out_lines]).lines
    /\ header_written' = FALSE
    /\ prev_tail' = <<>>
    /\ pos' = 0
    /\ tpc' = "loop"
    /\ UNCHANGED <<input, in_cols, chunksize, chunks, trun, prev_out, balVars, spaVars, wrVars,
                   cliVars>>

AnyColumns(cols) == TRUE

\* The by-name column reads of lines 74-81 succeed.
HasColumns(cols) == DailyCols \subseteq cols

KeepStray(rows) == rows

\* chunk = chunk[chunk['LAMBX'] != 'LAMBX']: copies of the header line among
\* the data rows are dropped.
DropStray(rows) == SelectSeq(rows, LAMBDA r : ~IsHeader(r))

\* One iteration of the chunk loop, lines 72-103.  chunk['LAMBX'] (line 74),
\* chunk['LAMBY'] (line 76) and chunk['day'] (line 81) raise KeyError when
\* the header lacks the column, and chunk['point'].iloc[-1] (line 90) raises
\* IndexError on a frame without rows, before anything is appended.
ReadChunk ==
    /\ tpc = "loop"
    /\ pos < Len(input)
    /\ LET chunk == prev_tail \o MapWithWeek(DropStray(RawChunk))
       IN IF ~HasColumns(in_cols) \/ chunk = <<>>
          THEN /\ tpc' = "error"
               /\ UNCHANGED <<pos, prev_tail, out_exists, out_lines, header_written>>
          ELSE /\ pos' = pos + Len(RawChunk)
               /\ prev_tail' = TailRows(chunk)
               /\ tpc' = tpc
               /\ IF Len(BodyRows(chunk)) = 0
                  THEN UNCHANGED <<out_exists, out_lines, header_written>>
                  ELSE /\ out_lines' = AppendCsv(out_lines, GroupMean(BodyRows(chunk)),
                                                 header_written)
                       /\ out_exists' = TRUE
                       /\ header_written' = TRUE
    /\ UNCHANGED <<input, in_cols, chunksize, chunks, trun, prev_out, balVars, spaVars,
                   wrVars, cliVars>>

\* End of stream, lines 105-120: the trailing point is flushed, then the
\* output file is opened to count its rows (which fails when no append
\* created it).
FlushLast ==
    /\ tpc = "loop"
    /\ pos = Len(input)
    /\ LET agg == FlushAgg(prev_tail)
           written == Len(prev_tail) > 0 /\ Len(agg) > 0
       IN /\ out_lines' = IF written THEN AppendCsv(out_lines, agg, header_written)
                          ELSE out_lines
          /\ out_exists' = (out_exists \/ written)
          /\ tpc' = IF out_exists \/ written THEN "done" ELSE "error"
    /\ UNCHANGED <<input, in_cols, chunksize, pos, prev_tail, header_written, chunks,
                   trun, prev_out, balVars, spaVars, wrVars, cliVars>>

TmpInit ==
    /\ input \in DailyInputs
    /\ in_cols = DailyCols
    /\ chunksize \in 1..MaxChunk
    /\ pos = 0
    /\ prev_tail = <<>>
    /\ header_written = FALSE
    /\ out_exists \in BOOLEAN
    /\ out_lines = IF out_exists THEN <<HeaderLine>> ELSE <<>>
    /\ chunks = <<>>
    /\ tpc = "start"
    /\ trun = 1
    /\ prev_out = <<>>

TemporalInit == TmpInit /\ BalIdle /\ SpaIdle /\ WrIdle /\ CliIdle

\* aggregate_temporal is called again with the same arguments: the output
\* file is as the previous run left it.
TemporalRerun ==
    /\ tpc \in {"done", "error"}
    /\ trun = 1
    /\ trun' = 2
    /\ prev_out' = out_lines
    /\ tpc' = "start"
    /\ UNCHANGED <<input, in_cols, chunksize, pos, prev_tail, header_written, out_exists,
                   out_lines, chunks, balVars, spaVars, wrVars, cliVars>>

TemporalNext == TemporalStart \/ ReadChunk \/ FlushLast \/ TemporalRerun

TemporalSpec == TemporalInit /\ [][TemporalNext]_vars

\* ---- src/aggregate.py: the non-streaming aggregate_temporal ----

\* Scenario 3: 10 daily rows of one point, Monday 6 January to Wednesday
\* 15 January 2020 (weeks 1 and 2).
ScenarioMetric(i) ==
    IF i % 3 = 1 THEN [P |-> 0, ETP |-> 10, Stock |-> 90, Gap |-> 0]
    ELSE IF i % 3 = 2 THEN [P |-> 0, ETP |-> 95, Stock |-> 0, Gap |-> 5]
    ELSE [P |-> 200, ETP |-> 5, Stock |-> 100, Gap |-> 0]

Scenario3Input == [i \in 1..10 |-> DailyRow(1, 5 + i, ScenarioMetric(i))]

\* One iteration of the chunk loop, lines 86-103: the chunk is aggregated
\* on its own and the aggregate is kept.
LegacyReadChunk ==
    /\ tpc = "loop"
    /\ pos < Len(input)
    /\ pos' = pos + Len(RawChunk)
    /\ chunks' = Append(chunks, GroupMean(MapWithWeek(RawChunk)))
    /\ UNCHANGED <<input, in_cols, chunksize, prev_tail, header_written, out_exists,
                   out_lines, tpc, trun, prev_out, balVars, spaVars, wrVars,
                   cliVars>>

RECURSIVE Concat(_)
Concat(ss) == IF ss = <<>> THEN <<>> ELSE Head(ss) \o Concat(Tail(ss))

\* Lines 110-126: the per-chunk aggregates are concatenated, aggregated
\* again by mean, sorted and written.  pd.concat of no chunk raises.
LegacyFinalize ==
    /\ tpc = "loop"
    /\ pos = Len(input)
    /\ IF chunks = <<>>
       THEN /\ tpc' = "error"
            /\ UNCHANGED <<out_exists, out_lines>>
       ELSE /\ out_lines' = <<HeaderLine>> \o GroupMean(Concat(chunks))
            /\ out_exists' = TRUE
            /\ tpc' = "done"
    /\ UNCHANGED <<input, in_cols, chunksize, pos, prev_tail, header_written, chunks,
                   trun, prev_out, balVars, spaVars, wrVars, cliVars>>

LegacyInit ==
    /\ \/ input \in DailyInputs /\ chunksize \in 1..MaxChunk
       \/ input = Scenario3Input /\ chunksize \in {3, 10}
    /\ in_cols = DailyCols
    /\ pos = 0
    /\ prev_tail = <<>>
    /\ header_written = FALSE
    /\ out_exists = FALSE
    /\ out_lines = <<>>
    /\ chunks = <<>>
    /\ tpc = "loop"
    /\ trun = 1
    /\ prev_out = <<>>
    /\ BalIdle
    /\ SpaIdle
    /\ WrIdle
    /\ CliIdle

LegacyNext == LegacyReadChunk \/ LegacyFinalize

LegacySpec == LegacyInit /\ [][LegacyNext]_vars

(***************************************************************************)
(* Claims on the temporal aggregation.                                     *)
(***************************************************************************)
\* Grouping the whole input at once by (point, coordinates, week).
WholeAgg == GroupMean(MapWithWeek(input))

\* C2. Chunk-invariance of the streaming aggregator: for every point-major
\* input and every chunk size, the multiset of weekly rows written equals
\* the multiset obtained by grouping the whole input at once (hence it is
\* the same for any two chunk sizes).
C2_ChunkInvariant ==
    tpc = "done" => BagOf(DataRows(out_lines)) = BagOf(WholeAgg)

\* A finished run in which a point straddled a chunk boundary and a week
\* holds several days.
C2_Witness ==
    /\ tpc = "done"
    /\ chunksize < Len(input)
    /\ \E i \in 1..Len(input) - 1 :
          /\ i % chunksize = 0
          /\ input[i].point = input[i + 1].point
          /\ WeekOf(input[i].day) = WeekOf(input[i + 1].day)
    /\ \E r \in Range(DataRows(out_lines)) : r.Stock[2] > 1

\* C3 as stated: the non-streaming aggregator yields the weekly means of
\* the whole input for every chunk size (so the same for any two), in
\* particular for the 10 rows of Scenario 3 with chunksize 3 and 10.
C3_Original ==
    tpc = "done" => BagOf(DataRows(out_lines)) = BagOf(WholeAgg)

\* The rows of input[1..pos] that belong to the last point read.
ReadSoFarOfLastPoint ==
    MapWithWeek(SelectSeq(SubSeq(input, 1, pos), LAMBDA r : r.point = input[pos].point))

\* C5. Chunk-boundary carry: no weekly row of a point is written while rows
\* of that point remain unread; after every chunk the carry is exactly the
\* rows read so far of the last point read, none of which is written before
\* end of stream; and every (point, week) key is written at most once, and
\* exactly once when the run is done.
C5_Carry ==
    /\ \A l \in Range(DataRows(out_lines)) :
          \A i \in (pos + 1)..Len(input) : input[i].point # l.point
    /\ (tpc = "loop" /\ pos > 0) =>
          /\ prev_tail = ReadSoFarOfLastPoint
          /\ \A l \in Range(DataRows(out_lines)) : l.point # input[pos].point
    /\ \A i, j \in 1..Len(DataRows(out_lines)) :
          KeyOf(DataRows(out_lines)[i]) = KeyOf(DataRows(out_lines)[j]) => i = j
    /\ tpc = "done" =>
          {KeyOf(l) : l \in Range(DataRows(out_lines))}
              = {KeyOf(r) : r \in Range(MapWithWeek(input))}

\* Mid-stream: rows of earlier points are written, the carry holds rows
\* from more than one chunk, and rows of the carried point remain unread.
C5_Witness ==
    /\ tpc = "loop"
    /\ pos < Len(input)
    /\ Len(DataRows(out_lines)) > 0
    /\ Len(prev_tail) > chunksize
    /\ input[pos + 1].point = input[pos].point

(***************************************************************************)
(* WATER-BALANCE SCRIPTS: all points, from the SIM file to the output file *)
(***************************************************************************)
MaxSim == 2         \* rows of the SIM file
FlushEvery == 2     \* FLUSH_EVERY: points buffered before a flush

\* The rows of gdf_joined: the points of the Kc file with RU_mm (tenths of
\* mm) and avg_kc (tenths).
SafranPoints ==
    << [pt |-> 1, ru |-> 500, kc |-> 10],
       [pt |-> 2, ru |-> 1000, kc |-> 5],
       [pt |-> 3, ru |-> 500, kc |-> 5] >>

\* DATE values of the SIM file (%Y%m%d).
SimDates == {20201230, 20201231, 20210101}

\* A missing value of the SIM file (NaN after read_csv).
NaN == -1000000

IsNaN(v) == v = NaN

\* PRE and ETP (mm) of a point on a date.
SimValue(pt, date) ==
    IF date = 20201230 THEN [PRE |-> 0, ETP |-> 95]
    ELSE IF date = 20201231 THEN [PRE |-> 0, ETP |-> 5 * pt]
    ELSE [PRE |-> 200, ETP |-> 10]

\* A row of the SIM file; miss names the column whose value is missing.
SimRow(k, miss) ==
    [pt |-> k[1], date |-> k[2],
     PRE |-> IF miss = "PRE" THEN NaN ELSE SimValue(k[1], k[2]).PRE,
     ETP |-> IF miss = "ETP" THEN NaN ELSE SimValue(k[1], k[2]).ETP]

SimKeys == {1, 2, 3} \X SimDates

\* Sequences of n distinct (point, date) keys, in any order.
RECURSIVE SimKeySeqs(_)
SimKeySeqs(n) ==
    IF n = 0 THEN {<<>>}
    ELSE UNION {{Append(ks, k) : k \in SimKeys \ Range(ks)} : ks \in SimKeySeqs(n - 1)}

\* The SIM files: at most MaxSim rows in any order, one row per (point,
\* date), at most one value missing.
SimFiles ==
    LET complete(ks) == [i \in 1..Len(ks) |-> SimRow(ks[i], "")]
        holed(ks, j, c) == [i \in 1..Len(ks) |-> SimRow(ks[i], IF i = j THEN c ELSE "")]
    IN UNION {{complete(ks)} \cup {holed(ks, j, c) : j \in 1..Len(ks), c \in {"PRE", "ETP"}}
              : ks \in UNION {SimKeySeqs(n) : n \in 0..MaxSim}}

\* df_sim['DATE'].dt.year
YearOf(date) == date \div 10000

\* The year filter: YEARS = 2020..2025 in src/scripts, 2020 in src.
YearFilter(rows) ==
    SelectSeq(rows, LAMBDA r : IF script = "scripts"
                               THEN YearOf(r.date) \in 2020..2025
                               ELSE YearOf(r.date) = 2020)

NoSort(rows) == rows

\* sort_values(['LAMBX', 'LAMBY', 'DATE']) (and, on one point's rows,
\* sort_values('DATE')).
RECURSIVE SortSim(_)
SortSim(rows) ==
    IF rows = <<>> THEN <<>>
    ELSE LET m == CHOOSE i \in 1..Len(rows) :
                     \A j \in 1..Len(rows) :
                         \/ rows[i].pt < rows[j].pt
                         \/ rows[i].pt = rows[j].pt /\ rows[i].date <= rows[j].date
         IN <<rows[m]>> \o SortSim(AtIndices(rows, (1..Len(rows)) \ {m}))

\* sim_grouped.get_group((lambx, lamby)); <<>> stands for the KeyError.
GetGroup(pt) == SelectSeq(SortSim(YearFilter(sim)), LAMBDA r : r.pt = pt)

\* df_sim[(LAMBX == lambx) & (LAMBY == lamby)].sort_values('DATE')
LegacyPointData(pt) == SortSim(SelectSeq(YearFilter(sim), LAMBDA r : r.pt = pt))

\* stock + pre[i] - etp[i] * kc in floating point: NaN if an operand is.
NanRawBalance(s, p, e, k) ==
    IF IsNaN(s) \/ IsNaN(p) \/ IsNaN(e) THEN NaN ELSE RawBalance(s, p, e, k)

\* `if stock > ru_max` is false for NaN.
NanCap(s, ru) == IF IsNaN(s) THEN NaN ELSE Cap(s, ru)

\* `if stock < 0` is false for NaN: gap = 0.
NanGapOf(s) == IF IsNaN(s) THEN 0 ELSE GapOf(s)

NanFloorStock(s) == IF IsNaN(s) THEN NaN ELSE FloorStock(s)

\* The records of one point: the loop of compute_balance (yearly = TRUE)
\* or of src/process_gap_with_kc.py (yearly = FALSE) over its rows, from
\* reservoir state s and cur_year cy.
RECURSIVE BalanceFrom(_, _, _, _, _, _)
BalanceFrom(rows, s, cy, ru, k, yearly) ==
    IF rows = <<>> THEN <<>>
    ELSE LET r == Head(rows)
             s0 == IF yearly THEN ResetStock(s, cy, YearOf(r.date), ru) ELSE s
             capped == NanCap(NanRawBalance(s0, r.PRE, r.ETP, k), ru)
         IN <<[pt |-> r.pt, date |-> r.date, P |-> r.PRE, ETP |-> r.ETP,
               Stock |-> NanFloorStock(capped), Gap |-> NanGapOf(capped)]>>
            \o BalanceFrom(Tail(rows), NanFloorStock(capped), YearOf(r.date), ru, k, yearly)

\* The chunk of one point, lines 128-152.
PointChunk(p, rows) == BalanceFrom(rows, p.ru, -1, p.ru, p.kc, script = "scripts")

\* batch.to_csv(output_path, mode='a', index=False, header=not header_written)
WriterAppend(f, rows, hw) ==
    [exists |-> TRUE, lines |-> f.lines \o (IF hw THEN <<>> ELSE <<HeaderLine>>) \o rows]

\* Lines 19-34, 80-83, 107-113 of src/scripts/process_gap_with_kc.py: the
\* SIM file is read, filtered, sorted and grouped, the stale output is
\* removed.
WriterStart ==
    /\ wpc = "start"
    /\ script = "scripts"
    /\ wfile' = Unlink(wfile)
    /\ whdr' = FALSE
    /\ buf' = <<>>
    /\ widx' = 0
    /\ wlog' = <<>>
    /\ wpc' = "points"
    /\ UNCHANGED <<script, sim, wrun, wprev, balVars, tmpVars, spaVars, cliVars>>

\* One iteration of the loop over the points, lines 118-161.
ProcessPoint ==
    /\ wpc = "points"
    /\ script = "scripts"
    /\ widx < Len(SafranPoints)
    /\ widx' = widx + 1
    /\ LET p == SafranPoints[widx + 1]
           rows == GetGroup(p.pt)
           full == Append(buf, PointChunk(p, rows))
       IN IF rows = <<>>
          THEN UNCHANGED <<buf, wfile, whdr>>
          ELSE IF Len(full) >= FlushEvery
          THEN /\ wfile' = WriterAppend(wfile, Concat(full), whdr)
               /\ whdr' = TRUE
               /\ buf' = <<>>
          ELSE /\ buf' = full
               /\ UNCHANGED <<wfile, whdr>>
    /\ UNCHANGED <<script, sim, wlog, wpc, wrun, wprev, balVars, tmpVars, spaVars,
                   cliVars>>

\* Lines 163-180: the rest of the buffer is flushed and the output file is
\* read back for the summary (which fails when no flush created it).
WriterFinish ==
    /\ wpc = "points"
    /\ script = "scripts"
    /\ widx = Len(SafranPoints)
    /\ wfile' = IF buf # <<>> THEN WriterAppend(wfile, Concat(buf), whdr) ELSE wfile
    /\ buf' = <<>>
    /\ wpc' = IF buf # <<>> \/ wfile.exists THEN "done" ELSE "error"
    /\ UNCHANGED <<script, sim, widx, whdr, wlog, wrun, wprev, balVars, tmpVars, spaVars,
                   cliVars>>

\* src/process_gap_with_kc.py, lines 19-25 and 74: the SIM file is read
\* and filtered; results = [].
LegacyWriterStart ==
    /\ wpc = "start"
    /\ script = "legacy"
    /\ buf' = <<>>
    /\ widx' = 0
    /\ wlog' = <<>>
    /\ wpc' = "points"
    /\ UNCHANGED <<script, sim, whdr, wfile, wrun, wprev, balVars, tmpVars, spaVars,
                   cliVars>>

\* src/process_gap_with_kc.py, lines 76-135, one point.
LegacyProcessPoint ==
    /\ wpc = "points"
    /\ script = "legacy"
    /\ widx < Len(SafranPoints)
    /\ widx' = widx + 1
    /\ LET p == SafranPoints[widx + 1]
           rows == LegacyPointData(p.pt)
       IN IF Len(rows) = 0
          THEN /\ wlog' = Append(wlog, p.pt)
               /\ UNCHANGED buf
          ELSE /\ buf' = buf \o PointChunk(p, rows)
               /\ UNCHANGED wlog
    /\ UNCHANGED <<script, sim, whdr, wfile, wpc, wrun, wprev, balVars, tmpVars, spaVars,
                   cliVars>>

\* src/process_gap_with_kc.py, lines 138-149: the results are written in
\* one to_csv; the summary groups by the column 'point', which a frame of
\* no rows does not have.
LegacyWriterFinish ==
    /\ wpc = "points"
    /\ script = "legacy"
    /\ widx = Len(SafranPoints)
    /\ wfile' = [exists |-> TRUE, lines |-> IF buf = <<>> THEN <<>> ELSE <<HeaderLine>> \o buf]
    /\ wpc' = IF buf = <<>> THEN "error" ELSE "done"
    /\ UNCHANGED <<script, sim, widx, buf, whdr, wlog, wrun, wprev, balVars, tmpVars, spaVars,
                   cliVars>>

\* The script is run again on the same files: the output file is as the
\* previous run left it.
WriterRerun ==
    /\ wpc \in {"done", "error"}
    /\ wrun = 1
    /\ wrun' = 2
    /\ wprev' = wfile
    /\ wpc' = "start"
    /\ UNCHANGED <<script, sim, widx, buf, whdr, wfile, wlog, balVars, tmpVars, spaVars,
                   cliVars>>

WrInit ==
    /\ script \in {"scripts", "legacy"}
    /\ sim \in SimFiles
    /\ widx = 0
    /\ buf = <<>>
    /\ whdr = FALSE
    /\ wfile = [exists |-> FALSE, lines |-> <<>>]
    /\ wlog = <<>>
    /\ wpc = "start"
    /\ wrun = 1
    /\ wprev = [exists |-> FALSE, lines |-> <<>>]

WriterInit == WrInit /\ BalIdle /\ TmpIdle /\ SpaIdle /\ CliIdle

WriterNext ==
    \/ WriterStart
    \/ ProcessPoint
    \/ WriterFinish
    \/ LegacyWriterStart
    \/ LegacyProcessPoint
    \/ LegacyWriterFinish
    \/ WriterRerun

WriterSpec == WriterInit /\ [][WriterNext]_vars

\* The streaming writers together: aggregate_temporal and the water-balance
\* scripts.
StreamInit == TemporalInit \/ WriterInit

StreamNext == TemporalNext \/ WriterNext

StreamSpec == StreamInit /\ [][StreamNext]_vars

(***************************************************************************)
(* Claims on the streaming writers and the water-balance scripts.          *)
(***************************************************************************)
\* C13. Idempotent streaming runs: a run starts by removing the stale
\* output file, so nothing of an earlier run is in the file once the run
\* appends, and a second run of aggregate_temporal or of the streaming
\* water-balance script on the same input ends with the file as the first
\* run left it: no duplicated row, no second header.
C13_Idempotent ==
    /\ (tpc = "loop" /\ ~header_written) => (~out_exists /\ out_lines = <<>>)
    /\ (trun = 2 /\ tpc \in {"done", "error"}) => out_lines = prev_out
    /\ (script = "scripts" /\ wpc = "points" /\ ~whdr) => wfile = [exists |-> FALSE, lines |-> <<>>]
    /\ (script = "scripts" /\ wrun = 2 /\ wpc \in {"done", "error"}) => wfile = wprev

\* A second run of aggregate_temporal has ended on a file of several rows
\* that the first run had left.
C13_Witness ==
    /\ trun = 2
    /\ tpc = "done"
    /\ Len(prev_out) >= 3
    /\ chunksize < Len(input)

\* C14. Single header: whenever the weekly output file exists it holds
\* exactly one header line, its first line, and data rows after it, after
\* any number of appends, chunks without finalized rows and the final flush.
C14_SingleHeader ==
    /\ out_exists <=> out_lines # <<>>
    /\ out_lines # <<>> =>
          /\ IsHeader(out_lines[1])
          /\ \A i \in 2..Len(out_lines) : ~IsHeader(out_lines[i])
    /\ tpc = "loop" => (header_written <=> out_lines # <<>>)

\* A run over a stale file has ended after a first chunk without finalized
\* rows, a later append and the final flush.
C14_Witness ==
    /\ tpc = "done"
    /\ trun = 2
    /\ chunksize < Len(input)
    /\ input[1].point = input[chunksize].point
    /\ input[1].point # input[Len(input)].point
    /\ Len(out_lines) >= 3

\* The data rows of point pt in the output file.
Written(pt) == SelectSeq(DataRows(wfile.lines), LAMBDA l : l.pt = pt)

\* The rows of point pt that pass the year filter, as a set.
Observed(pt) == {r \in Range(YearFilter(sim)) : r.pt = pt}

\* The rows of a set in ascending date order.
RECURSIVE Ascending(_)
Ascending(S) ==
    IF S = {} THEN <<>>
    ELSE LET m == CHOOSE r \in S : \A q \in S : r.date <= q.date
         IN <<m>> \o Ascending(S \ {m})

\* C17. Defensive date ordering: the records written for a point are those
\* of the recurrence over the point's observations in ascending date order,
\* whatever the row order of the SIM file (they depend on the set of rows
\* only), and they are written in ascending date order.
C17_DateOrder ==
    wpc = "done" =>
        \A n \in 1..Len(SafranPoints) :
            LET p == SafranPoints[n]
            IN /\ Written(p.pt) = PointChunk(p, Ascending(Observed(p.pt)))
               /\ \A i, j \in 1..Len(Written(p.pt)) :
                     i < j => Written(p.pt)[i].date < Written(p.pt)[j].date

\* A finished run on a file that holds two days of a point in descending
\* order, the earlier of which ends in deficit.
C17_Witness ==
    /\ wpc = "done"
    /\ \E i, j \in 1..Len(sim) :
          /\ i < j
          /\ sim[i].pt = sim[j].pt
          /\ sim[i].date > sim[j].date
          /\ YearOf(sim[i].date) = 2020
          /\ \E l \in Range(Written(sim[j].pt)) : l.date = sim[j].date /\ l.Gap > 0

\* C18 as stated: no record is written that was computed from a missing P
\* or ETP: none for the day of the missing value, none with a Stock that is
\* not a number.
C18_Claim ==
    \A l \in Range(DataRows(wfile.lines)) :
        ~IsNaN(l.P) /\ ~IsNaN(l.ETP) /\ ~IsNaN(l.Stock)

\* C19 as stated: a point without daily series is skipped and logged, no
\* record is written for it, and every point that has observations is
\* written.
C19_Claim ==
    wpc = "done" =>
        \A n \in 1..Len(SafranPoints) :
            LET pt == SafranPoints[n].pt
            IN IF Observed(pt) = {}
               THEN Written(pt) = <<>> /\ pt \in Range(wlog)
               ELSE Len(Written(pt)) = Cardinality(Observed(pt))

(***************************************************************************)
(* SPATIAL AGGREGATION                                                     *)
(***************************************************************************)
\* SPATIAL_SCALES of src/scripts/aggregate.py, level_0 .. level_6, in km.
Scales == <<8, 11, 15, 21, 29, 41, 64>>

\* SPATIAL_SCALES of src/aggregate.py.
LegacyScales == <<8, 16, 32, 64, 128, 256, 512>>

Levels == 0..6

ScaleOf(lv) == IF impl = "scripts" THEN Scales[lv + 1] ELSE LegacyScales[lv + 1]

\* Sample points, in km: on bin edges (also a negative one), 5 km apart
\* along x inside a 16 km bin (0, 5) and across its edge (15, 20), 20 km
\* apart along x (0, 20) and 20 km apart diagonally (16 km by 12 km).
PointsKm == << <<-8, 2000>>, <<0, 2000>>, <<5, 2000>>, <<15, 2000>>, <<20, 2000>>,
               <<24, 2026>>, <<40, 2038>> >>

TimeBuckets == {1, 2}

MetricAt(i, t) ==
    IF (i + t) % 3 = 0 THEN [P |-> 0, ETP |-> 10, Stock |-> 90, Gap |-> 0]
    ELSE IF (i + t) % 3 = 1 THEN [P |-> 0, ETP |-> 95, Stock |-> 0, Gap |-> 5]
    ELSE [P |-> 200, ETP |-> 5, Stock |-> 100, Gap |-> 0]

\* Input coordinate units per km.
UnitsPerKm(u) == IF u = "km" THEN 1 ELSE 1000

\* The record of point i in bucket t in a file whose coordinates are in u.
InputRow(i, t, u) ==
    [point |-> i, x |-> PointsKm[i][1] * UnitsPerKm(u), y |-> PointsKm[i][2] * UnitsPerKm(u),
     t |-> t, P |-> MetricAt(i, t).P, ETP |-> MetricAt(i, t).ETP,
     Stock |-> MetricAt(i, t).Stock, Gap |-> MetricAt(i, t).Gap]

RecKeys == (1..Len(PointsKm)) \X TimeBuckets

\* Point-major key sequences: one record per (point, bucket), ascending.
RECURSIVE KeySeqs(_)
KeySeqs(n) ==
    IF n = 0 THEN {<<>>}
    ELSE UNION {{Append(s, k) : k \in {q \in RecKeys : s = <<>> \/ KeyLess(s[Len(s)], q)}}
                : s \in KeySeqs(n - 1)}

Reverse(s) == [i \in 1..Len(s) |-> s[Len(s) + 1 - i]]

RowSeqs(u) ==
    LET asc == UNION {KeySeqs(n) : n \in 0..MaxRecs}
        rows(ks) == [i \in 1..Len(ks) |-> InputRow(ks[i][1], ks[i][2], u)]
    IN {rows(ks) : ks \in asc} \cup {Reverse(rows(ks)) : ks \in asc}

\* The input files: true unit of the coordinates, time columns of the
\* header, rows.
Datasets ==
    UNION {{[unit |-> u, cols |-> c, coords |-> CoordCols, rows |-> r] : r \in RowSeqs(u)}
           : <<u, c>> \in {"km", "m"} \X SUBSET {"day", "week"}}

MaxOf(S) == CHOOSE m \in S : \A k \in S : k <= m

\* Lines 213-219.  Of an empty frame the maxima are NaN and the comparisons
\* are false.
DetectUnit(rows) ==
    IF rows # <<>>
       /\ MaxOf({r.x : r \in Range(rows)}) < 10000
       /\ MaxOf({r.y : r \in Range(rows)}) < 100000
    THEN 10
    ELSE 1

GridSizeKilo(scale) == scale * 1000

\* grid_size_meters = scale * 10
GridSizeMeters(scale) == scale * 10

GridNearest(X, gs) == ((2 * X + gs) \div (2 * gs)) * gs

\* np.floor(X_meters / grid_size_meters) * grid_size_meters
GridFloor(X, gs) == (X \div gs) * gs

GridLowerEdge(g, gs) == g

\* grid_x + grid_size_meters / 2  (grid_size_meters is a multiple of 10)
GridCenter(g, gs) == g + gs \div 2

\* grid_x.astype(str) + '_' + grid_y.astype(str): the two numbers, which the
\* string determines and which determine the string.
CellId(gx, gy) == <<gx, gy>>

TimeCol(cols) == IF "day" \in cols THEN "day" ELSE "week"

GroupCol(cols) == IF "week" \in cols THEN "week" ELSE "day"

\* A row of df after lines 222-223.
LoadedRow(r, cu) ==
    [point |-> r.point, x |-> r.x, y |-> r.y, t |-> r.t,
     P |-> r.P, ETP |-> r.ETP, Stock |-> r.Stock, Gap |-> r.Gap,
     X_meters |-> r.x * cu, Y_meters |-> r.y * cu]

GridRowOnce(r, gs) ==
    IF "grid_cell" \in DOMAIN r THEN r
    ELSE [point |-> r.point, x |-> r.x, y |-> r.y, t |-> r.t,
          P |-> r.P, ETP |-> r.ETP, Stock |-> r.Stock, Gap |-> r.Gap,
          X_meters |-> r.X_meters, Y_meters |-> r.Y_meters,
          grid_x |-> GridFloor(r.X_meters, gs), grid_y |-> GridFloor(r.Y_meters, gs),
          grid_x_center |-> GridCenter(GridFloor(r.X_meters, gs), gs),
          grid_y_center |-> GridCenter(GridFloor(r.Y_meters, gs), gs),
          grid_cell |-> CellId(GridFloor(r.X_meters, gs), GridFloor(r.Y_meters, gs))]

\* A row of df after lines 234-242.
GridRow(r, gs) ==
    [point |-> r.point, x |-> r.x, y |-> r.y, t |-> r.t,
     P |-> r.P, ETP |-> r.ETP, Stock |-> r.Stock, Gap |-> r.Gap,
     X_meters |-> r.X_meters, Y_meters |-> r.Y_meters,
     grid_x |-> GridFloor(r.X_meters, gs), grid_y |-> GridFloor(r.Y_meters, gs),
     grid_x_center |-> GridCenter(GridFloor(r.X_meters, gs), gs),
     grid_y_center |-> GridCenter(GridFloor(r.Y_meters, gs), gs),
     grid_cell |-> CellId(GridFloor(r.X_meters, gs), GridFloor(r.Y_meters, gs))]

\* A row of df after the clean-up of line 298.
CleanRow(r) ==
    [point |-> r.point, x |-> r.x, y |-> r.y, t |-> r.t,
     P |-> r.P, ETP |-> r.ETP, Stock |-> r.Stock, Gap |-> r.Gap]

CellKey(r) == <<r.grid_cell, r.t>>

\* The decimal digits of n >= 0, as character codes.
RECURSIVE Digits(_)
Digits(n) == IF n < 10 THEN <<48 + n>> ELSE Append(Digits(n \div 10), 48 + (n % 10))

\* str() of a float64 with an integral value: '-80.0', '0.0', '20000.0'.
NumStr(n) == (IF n < 0 THEN <<45>> ELSE <<>>) \o Digits(Abs(n)) \o <<46, 48>>

\* grid_x.astype(str) + '_' + grid_y.astype(str), as character codes.
CellStr(c) == NumStr(c[1]) \o <<95>> \o NumStr(c[2])

\* a < b for strings.
SeqLess(a, b) ==
    \E k \in 1..(Min(Len(a), Len(b)) + 1) :
        /\ \A j \in 1..(k - 1) : a[j] = b[j]
        /\ \/ k > Len(a) /\ k <= Len(b)
           \/ k <= Len(a) /\ k <= Len(b) /\ a[k] < b[k]

\* The order of sort_values(['grid_cell', time_col]): cell ids compare as
\* strings, then the time bucket.
CellKeyLess(a, b) ==
    \/ SeqLess(CellStr(a[1]), CellStr(b[1]))
    \/ a[1] = b[1] /\ a[2] < b[2]

\* Keys in the order of sort_values(['grid_cell', time_col]).
RECURSIVE SortCellKeys(_)
SortCellKeys(K) ==
    IF K = {} THEN <<>>
    ELSE LET m == CHOOSE k \in K : \A j \in K : j = k \/ CellKeyLess(k, j)
         IN <<m>> \o SortCellKeys(K \ {m})

Members(rows, k) == {i \in 1..Len(rows) : CellKey(rows[i]) = k}

CountInCell(rows, k) == Cardinality({i \in 1..Len(rows) : rows[i].grid_cell = k[1]})

\* 'point': 'count'
CountOf(rows, k) == Cardinality(Members(rows, k))

\* 'mean' of column c over the records of key k
CellMean(rows, k, c) ==
    Rat(SumSeq(AtIndices([i \in 1..Len(rows) |-> rows[i][c]], Members(rows, k))),
        Cardinality(Members(rows, k)))

\* Lines 250-276: one output row per (cell, bucket); the representative
\* coordinate is the centre divided by coord_unit.
Aggregated(rows, cu) ==
    LET keys == SortCellKeys({CellKey(r) : r \in Range(rows)})
        first(k) == rows[CHOOSE i \in Members(rows, k) : TRUE]
    IN [n \in 1..Len(keys) |->
          [grid_cell |-> keys[n][1],
           LAMBX |-> Rat(first(keys[n]).grid_x_center, cu),
           LAMBY |-> Rat(first(keys[n]).grid_y_center, cu),
           t |-> keys[n][2],
           P |-> CellMean(rows, keys[n], "P"), ETP |-> CellMean(rows, keys[n], "ETP"),
           Stock |-> CellMean(rows, keys[n], "Stock"), Gap |-> CellMean(rows, keys[n], "Gap"),
           point_count |-> CountOf(rows, keys[n])]]

WriteLevelAppend(files, lv, rows) ==
    [l \in DOMAIN files \cup {lv} |->
        IF l # lv THEN files[l]
        ELSE IF lv \in DOMAIN files THEN files[lv] \o rows ELSE rows]

\* aggregated.to_csv(output_file, index=False); output_files[level] = output_file
WriteLevel(files, lv, rows) ==
    [l \in DOMAIN files \cup {lv} |-> IF l = lv THEN rows ELSE files[l]]

\* `if scale_level:` -- None and the empty string are falsy.
Truthy(sl) == sl \notin {-1, -2}

\* The levels of the run, in the order of the SPATIAL_SCALES dict.
LevelsToProcess(sl) == IF Truthy(sl) THEN <<sl>> ELSE <<0, 1, 2, 3, 4, 5, 6>>

\* ValueError(f"Invalid scale_level. Choose from {list(SPATIAL_SCALES.keys())}")
InvalidScaleLevel == [type |-> "ValueError: Invalid scale_level", choices |-> Levels]

\* ValueError("No 'day' or 'week' column found in input file")
NoTimeColumn == [type |-> "ValueError: No 'day' or 'week' column", choices |-> {}]

\* sort_values(['grid_cell', 'day']) on a frame without the column 'day'
SortKeyError == [type |-> "KeyError: 'day'", choices |-> {}]

\* df['LAMBX'] or df['LAMBY'] on a frame without the column
MissingCoordinate == [type |-> "KeyError: 'LAMBX' or 'LAMBY'", choices |-> {}]

\* len(aggregated) / len(df) with an empty df
DivisionByZero == [type |-> "ZeroDivisionError", choices |-> {}]

\* Lines 142-223: the levels are chosen, the file is read, the unit is
\* detected and the coordinates are converted.
SpatialStart ==
    /\ spc = "start"
    /\ impl = "scripts"
    /\ IF Truthy(scale_level) /\ scale_level \notin Levels
       THEN /\ spc' = "error"
            /\ raised' = InvalidScaleLevel
            /\ UNCHANGED <<df, coord_unit, todo>>
       ELSE IF dataset.cols = {}
       THEN /\ spc' = "error"
            /\ raised' = NoTimeColumn
            /\ UNCHANGED <<df, coord_unit, todo>>
       ELSE IF dataset.coords # CoordCols
       THEN /\ spc' = "error"
            /\ raised' = MissingCoordinate
            /\ UNCHANGED <<df, coord_unit, todo>>
       ELSE /\ coord_unit' = DetectUnit(dataset.rows)
            /\ df' = [i \in 1..Len(dataset.rows) |->
                        LoadedRow(dataset.rows[i], DetectUnit(dataset.rows))]
            /\ todo' = LevelsToProcess(scale_level)
            /\ spc' = "levels"
            /\ UNCHANGED raised
    /\ UNCHANGED <<impl, scale_level, dataset, level, metadata, output_files,
                   disk, prev_disk, run, balVars, tmpVars, wrVars, cliVars>>

\* Lines 226-296, one level.  With both time columns the frame is grouped
\* by week and sorted by the absent column 'day', which raises before the
\* artifact is written; the statistics of line 285 divide by len(df).
ProcessLevel ==
    /\ spc = "levels"
    /\ impl = "scripts"
    /\ todo # <<>>
    /\ LET lv == Head(todo)
           gs == GridSizeMeters(ScaleOf(lv))
           rows == [i \in 1..Len(df) |-> GridRow(df[i], gs)]
       IN /\ df' = rows
          /\ level' = lv
          /\ IF TimeCol(dataset.cols) # GroupCol(dataset.cols)
             THEN /\ spc' = "error"
                  /\ raised' = SortKeyError
                  /\ UNCHANGED <<output_files, disk, todo>>
             ELSE /\ output_files' = WriteLevel(output_files, lv, Aggregated(rows, coord_unit))
                  /\ disk' = WriteLevel(disk, lv, Aggregated(rows, coord_unit))
                  /\ todo' = Tail(todo)
                  /\ spc' = IF Len(df) = 0 THEN "error" ELSE "levels"
                  /\ raised' = IF Len(df) = 0 THEN DivisionByZero ELSE raised
    /\ UNCHANGED <<impl, scale_level, dataset, coord_unit, metadata, prev_disk, run,
                   balVars, tmpVars, wrVars, cliVars>>

\* Lines 298-321: the temporary columns are dropped and the metadata file
\* is written.
WriteMetadata ==
    /\ spc = "levels"
    /\ impl = "scripts"
    /\ todo = <<>>
    /\ df' = [i \in 1..Len(df) |-> CleanRow(df[i])]
    /\ metadata' = [exists |-> TRUE,
                    unit |-> IF coord_unit = 1000 THEN "kilometers" ELSE "meters",
                    files |-> DOMAIN output_files,
                    base_grid_size |-> base_grid_size,
                    source |-> source,
                    scales |-> [lv \in Levels |-> ScaleOf(lv)]]
    /\ spc' = "done"
    /\ UNCHANGED <<impl, scale_level, dataset, coord_unit, todo, level, output_files,
                   disk, prev_disk, run, raised, balVars, tmpVars, wrVars,
                   cliVars>>

\* ---- src/aggregate.py: aggregate_spatial ----

\* np.round(n / d): to the nearest integer, halves to the even one.
RoundHalfEven(n, d) ==
    LET q == n \div d
        r == n % d
    IN IF 2 * r < d THEN q
       ELSE IF 2 * r > d THEN q + 1
       ELSE IF q % 2 = 0 THEN q ELSE q + 1

\* str() of the float np.round(v / gs) * gs: its sign and magnitude; the
\* rounding of a negative value to zero is -0.0.
LegacyGridStr(v, gs) ==
    <<IF v < 0 THEN "-" ELSE "", Abs(RoundHalfEven(v, gs) * gs)>>

\* np.round(LAMBX / (scale * 1000)) * (scale * 1000)
LegacyGrid(v, scale) == RoundHalfEven(v, scale * 1000) * (scale * 1000)

LegacyGridRow(r, scale) ==
    [point |-> r.point, x |-> r.x, y |-> r.y, t |-> r.t,
     P |-> r.P, ETP |-> r.ETP, Stock |-> r.Stock, Gap |-> r.Gap,
     grid_x |-> LegacyGrid(r.x, scale), grid_y |-> LegacyGrid(r.y, scale),
     grid_x_center |-> LegacyGrid(r.x, scale), grid_y_center |-> LegacyGrid(r.y, scale),
     grid_cell |-> <<LegacyGridStr(r.x, scale * 1000), LegacyGridStr(r.y, scale * 1000)>>]

\* The cell id string of src/aggregate.py, as character codes.
LegacyCellStr(c) ==
    LET str(g) == (IF g[1] = "-" THEN <<45>> ELSE <<>>) \o Digits(g[2]) \o <<46, 48>>
    IN str(c[1]) \o <<95>> \o str(c[2])

LegacyCellKeyLess(a, b) ==
    \/ SeqLess(LegacyCellStr(a[1]), LegacyCellStr(b[1]))
    \/ a[1] = b[1] /\ a[2] < b[2]

RECURSIVE LegacySortKeys(_)
LegacySortKeys(K) ==
    IF K = {} THEN <<>>
    ELSE LET m == CHOOSE k \in K : \A j \in K : j = k \/ LegacyCellKeyLess(k, j)
         IN <<m>> \o LegacySortKeys(K \ {m})

\* Lines 234-258 of src/aggregate.py.
LegacyAggregated(rows) ==
    LET keys == LegacySortKeys({CellKey(r) : r \in Range(rows)})
        first(k) == rows[CHOOSE i \in Members(rows, k) : TRUE]
    IN [n \in 1..Len(keys) |->
          [grid_cell |-> keys[n][1],
           LAMBX |-> Rat(first(keys[n]).grid_x, 1),
           LAMBY |-> Rat(first(keys[n]).grid_y, 1),
           t |-> keys[n][2],
           P |-> CellMean(rows, keys[n], "P"), ETP |-> CellMean(rows, keys[n], "ETP"),
           Stock |-> CellMean(rows, keys[n], "Stock"), Gap |-> CellMean(rows, keys[n], "Gap"),
           point_count |-> CountOf(rows, keys[n])]]

\* Lines 156-212 of src/aggregate.py: no unit detection.
LegacySpatialStart ==
    /\ spc = "start"
    /\ impl = "legacy"
    /\ IF Truthy(scale_level) /\ scale_level \notin Levels
       THEN /\ spc' = "error"
            /\ raised' = InvalidScaleLevel
            /\ UNCHANGED <<df, todo>>
       ELSE IF dataset.cols = {}
       THEN /\ spc' = "error"
            /\ raised' = NoTimeColumn
            /\ UNCHANGED <<df, todo>>
       ELSE /\ df' = dataset.rows
            /\ todo' = LevelsToProcess(scale_level)
            /\ spc' = "levels"
            /\ UNCHANGED raised
    /\ UNCHANGED <<impl, scale_level, dataset, coord_unit, level, metadata,
                   output_files, disk, prev_disk, run, balVars, tmpVars, wrVars,
                   cliVars>>

\* Lines 215-270 of src/aggregate.py, one level.  df['LAMBX'] (line 222)
\* raises KeyError when the header lacks a coordinate column.
LegacyProcessLevel ==
    /\ spc = "levels"
    /\ impl = "legacy"
    /\ todo # <<>>
    /\ LET lv == Head(todo)
           rows == [i \in 1..Len(df) |-> LegacyGridRow(df[i], ScaleOf(lv))]
       IN /\ df' = IF dataset.coords # CoordCols THEN df ELSE rows
          /\ level' = lv
          /\ IF dataset.coords # CoordCols
             THEN /\ spc' = "error"
                  /\ raised' = MissingCoordinate
                  /\ UNCHANGED <<output_files, disk, todo>>
             ELSE IF TimeCol(dataset.cols) # GroupCol(dataset.cols)
             THEN /\ spc' = "error"
                  /\ raised' = SortKeyError
                  /\ UNCHANGED <<output_files, disk, todo>>
             ELSE /\ output_files' = WriteLevel(output_files, lv, LegacyAggregated(rows))
                  /\ disk' = WriteLevel(disk, lv, LegacyAggregated(rows))
                  /\ todo' = Tail(todo)
                  /\ spc' = IF Len(df) = 0 THEN "error" ELSE "levels"
                  /\ raised' = IF Len(df) = 0 THEN DivisionByZero ELSE raised
    /\ UNCHANGED <<impl, scale_level, dataset, coord_unit, metadata, prev_disk, run,
                   balVars, tmpVars, wrVars, cliVars>>

\* Lines 272-294 of src/aggregate.py.
LegacyWriteMetadata ==
    /\ spc = "levels"
    /\ impl = "legacy"
    /\ todo = <<>>
    /\ metadata' = [exists |-> TRUE, unit |-> "", files |-> DOMAIN output_files,
                    base_grid_size |-> base_grid_size,
                    source |-> source,
                    scales |-> [lv \in Levels |-> ScaleOf(lv)]]
    /\ spc' = "done"
    /\ UNCHANGED <<impl, scale_level, dataset, df, coord_unit, todo, level,
                   output_files, disk, prev_disk, run, raised, balVars, tmpVars, wrVars,
                   cliVars>>

SpaInit ==
    /\ impl \in {"scripts", "legacy"}
    /\ scale_level \in {-1, 1}
    /\ dataset \in Datasets
    /\ df = <<>>
    /\ coord_unit = 0
    /\ todo = <<>>
    /\ level = 0
    /\ metadata = [exists |-> FALSE]
    /\ output_files = <<>>
    /\ spc = "start"
    /\ disk = <<>>
    /\ prev_disk = <<>>
    /\ run = 1
    /\ raised = NoError

SpatialInit == SpaInit /\ BalIdle /\ TmpIdle /\ WrIdle /\ NoCli(InputPath)

SpatialNext ==
    \/ SpatialStart
    \/ ProcessLevel
    \/ WriteMetadata
    \/ LegacySpatialStart
    \/ LegacyProcessLevel
    \/ LegacyWriteMetadata

SpatialSpec == SpatialInit /\ [][SpatialNext]_vars

\* ---- repeated runs of src/scripts/aggregate.py aggregate_spatial ----

\* The scale_level arguments tried: '', None, 'level_1', 'level_6' and a
\* name that is no key of SPATIAL_SCALES.
ScaleLevelArgs == {-2, -1, 1, 6, 7}

\* The input files of the repeated runs: weekly files in km, with or
\* without a 'day' column besides, and files without a time column.
RunDatasets == {d \in Datasets : d.unit = "km" /\ d.cols # {"day"}}

\* aggregate_spatial is called again with the same arguments: the locals
\* are new, the output directory is as the previous run left it.
SpatialRerun ==
    /\ spc \in {"done", "error"}
    /\ impl = "scripts"
    /\ run = 1
    /\ run' = 2
    /\ prev_disk' = disk
    /\ spc' = "start"
    /\ df' = <<>>
    /\ coord_unit' = 0
    /\ todo' = <<>>
    /\ level' = 0
    /\ output_files' = <<>>
    /\ raised' = NoError
    /\ UNCHANGED <<impl, scale_level, dataset, metadata, disk, balVars, tmpVars, wrVars,
                   cliVars>>

RunsInit ==
    /\ impl = "scripts"
    /\ scale_level \in ScaleLevelArgs
    /\ dataset \in RunDatasets
    /\ df = <<>>
    /\ coord_unit = 0
    /\ todo = <<>>
    /\ level = 0
    /\ metadata = [exists |-> FALSE]
    /\ output_files = <<>>
    /\ spc = "start"
    /\ disk = <<>>
    /\ prev_disk = <<>>
    /\ run = 1
    /\ raised = NoError
    /\ BalIdle
    /\ TmpIdle
    /\ WrIdle
    /\ NoCli(InputPath)

RunsNext == SpatialStart \/ ProcessLevel \/ WriteMetadata \/ SpatialRerun

RunsSpec == RunsInit /\ [][RunsNext]_vars

\* ---- input files with and without the columns the aggregations need ----

\* Daily files whose i-th row carries the i-th metric vector of the scenario.
PlainInputs ==
    {s \in DailyInputs :
        \A i \in 1..Len(s) : s[i] = DailyRow(s[i].point, s[i].day, ScenarioMetric(i))}

\* Files for aggregate_spatial with any subset of the time columns and of
\* the coordinate columns in the header.
SchemaDatasets ==
    {[unit |-> d.unit, cols |-> d.cols, coords |-> c, rows |-> d.rows] :
        <<d, c>> \in {e \in Datasets : Len(e.rows) < MaxRecs} \X SUBSET CoordCols}

SchemaInit ==
    \/ /\ input \in PlainInputs
       /\ in_cols \in SUBSET DailyCols
       /\ chunksize \in 1..MaxChunk
       /\ pos = 0
       /\ prev_tail = <<>>
       /\ header_written = FALSE
       /\ out_exists \in BOOLEAN
       /\ out_lines = IF out_exists THEN <<HeaderLine>> ELSE <<>>
       /\ chunks = <<>>
       /\ tpc = "start"
       /\ trun = 1
       /\ prev_out = <<>>
       /\ BalIdle /\ SpaIdle /\ WrIdle /\ CliIdle
    \/ /\ impl \in {"scripts", "legacy"}
       /\ scale_level \in {-1, 1}
       /\ dataset \in SchemaDatasets
       /\ df = <<>>
       /\ coord_unit = 0
       /\ todo = <<>>
       /\ level = 0
       /\ metadata = [exists |-> FALSE]
       /\ output_files = <<>>
       /\ spc = "start"
       /\ disk = <<>>
       /\ prev_disk = <<>>
       /\ run = 1
       /\ raised = NoError
       /\ BalIdle /\ TmpIdle /\ WrIdle /\ NoCli(InputPath)

\* ---- daily files with copies of the header line among the rows ----
MaxStray == 2       \* most header copies embedded in one file

InsertAt(s, i, r) == SubSeq(s, 1, i) \o <<r>> \o SubSeq(s, i + 1, Len(s))

\* The daily files with at most k copies of the header line, at any
\* positions.
RECURSIVE WithStray(_)
WithStray(k) ==
    IF k = 0 THEN {s \in PlainInputs : Len(s) < MaxRows}
    ELSE WithStray(k - 1)
         \cup UNION {{InsertAt(s, i, HeaderLine) : i \in 0..Len(s)} : s \in WithStray(k - 1)}

StrayInit ==
    /\ input \in WithStray(MaxStray)
    /\ in_cols = DailyCols
    /\ chunksize \in 1..MaxChunk
    /\ pos = 0
    /\ prev_tail = <<>>
    /\ header_written = FALSE
    /\ out_exists = FALSE
    /\ out_lines = <<>>
    /\ chunks = <<>>
    /\ tpc = "start"
    /\ trun = 1
    /\ prev_out = <<>>
    /\ BalIdle /\ SpaIdle /\ WrIdle /\ CliIdle

StrayNext == TemporalStart \/ ReadChunk \/ FlushLast

StraySpec == StrayInit /\ [][StrayNext]_vars

SchemaNext == TemporalStart \/ ReadChunk \/ FlushLast \/ SpatialNext

SchemaSpec == SchemaInit /\ [][SchemaNext]_vars

(***************************************************************************)
(* COMBINED WORKFLOW AND COMMAND LINE                                      *)
(***************************************************************************)
\* ---- strings and paths ----

\* The last position of the character c in s, 0 when it does not occur.
IndexOfLast(s, c) ==
    LET I == {i \in 1..Len(s) : SubSeq(s, i, i) = c}
    IN IF I = {} THEN 0 ELSE MaxOf(I)

\* Path(p): trailing slashes are dropped.
RECURSIVE PathOf(_)
PathOf(p) ==
    IF Len(p) > 1 /\ SubSeq(p, Len(p), Len(p)) = "/"
    THEN PathOf(SubSeq(p, 1, Len(p) - 1))
    ELSE p

\* Path(p).parent
Parent(p) ==
    IF IndexOfLast(p, "/") = 0 THEN "." ELSE SubSeq(p, 1, IndexOfLast(p, "/") - 1)

\* Path(p).name
Name(p) == SubSeq(p, IndexOfLast(p, "/") + 1, Len(p))

\* Path(p).stem: the name without its last suffix.
Stem(p) ==
    IF IndexOfLast(Name(p), ".") <= 1 THEN Name(p)
    ELSE SubSeq(Name(p), 1, IndexOfLast(Name(p), ".") - 1)

\* d / n
Join(d, n) == IF d = "." THEN n ELSE d \o "/" \o n

UpperCase == "ABCDEFGHIJKLMNOPQRSTUVWXYZ"

LowerCase == "abcdefghijklmnopqrstuvwxyz"

LowerChar(c) ==
    LET I == {i \in 1..Len(UpperCase) : SubSeq(UpperCase, i, i) = c}
    IN IF I = {} THEN c
       ELSE SubSeq(LowerCase, CHOOSE i \in I : TRUE, CHOOSE i \in I : TRUE)

\* str.lower()
RECURSIVE Lower(_)
Lower(s) == IF s = "" THEN "" ELSE LowerChar(SubSeq(s, 1, 1)) \o Lower(SubSeq(s, 2, Len(s)))

DecimalDigits == "0123456789"

\* The value of the digit c, -1 when c is no digit.
DigitOf(c) ==
    LET I == {i \in 1..Len(DecimalDigits) : SubSeq(DecimalDigits, i, i) = c}
    IN IF I = {} THEN -1 ELSE (CHOOSE i \in I : TRUE) - 1

\* int(s) succeeds (unsigned decimal literals only).
IsInt(s) == s # "" /\ \A i \in 1..Len(s) : DigitOf(SubSeq(s, i, i)) >= 0

\* int(s)
RECURSIVE IntOf(_)
IntOf(s) ==
    IF s = "" THEN 0
    ELSE IntOf(SubSeq(s, 1, Len(s) - 1)) * 10 + DigitOf(SubSeq(s, Len(s), Len(s)))

\* ---- the files as aggregate_spatial reads them ----

\* A value of a CSV column as a fixed-point number in 1/420 mm (weekly
\* means are over at most 7 days, so every mean is a multiple of 1/420).
Fixed(q) == (q[1] * 420) \div q[2]

\* The daily file read by aggregate_spatial: the coordinates of point i are
\* PointsKm[i], the time column is 'day'.
DailyAsDataset(rows) ==
    [unit |-> "km", cols |-> {"day"}, coords |-> CoordCols,
     rows |-> [i \in 1..Len(rows) |->
                 [point |-> rows[i].point,
                  x |-> PointsKm[rows[i].point][1], y |-> PointsKm[rows[i].point][2],
                  t |-> rows[i].day,
                  P |-> Fixed(<<rows[i].P, 1>>), ETP |-> Fixed(<<rows[i].ETP, 1>>),
                  Stock |-> Fixed(<<rows[i].Stock, 1>>), Gap |-> Fixed(<<rows[i].Gap, 1>>)]]]

\* The weekly file read by aggregate_spatial: the header line gives the
\* columns, the time column is 'week'.
WeeklyAsDataset(lines) ==
    [unit |-> "km", cols |-> {"week"}, coords |-> CoordCols,
     rows |-> [i \in 1..Len(DataRows(lines)) |->
                 LET r == DataRows(lines)[i]
                 IN [point |-> r.point,
                     x |-> PointsKm[r.point][1], y |-> PointsKm[r.point][2],
                     t |-> r.week,
                     P |-> Fixed(r.P), ETP |-> Fixed(r.ETP),
                     Stock |-> Fixed(r.Stock), Gap |-> Fixed(r.Gap)]]]

\* pd.read_csv(path) in aggregate_spatial: the daily input lies at
\* InputPath, every other path read is the weekly file.
ReadForSpatial(path) ==
    IF path = InputPath THEN DailyAsDataset(input) ELSE WeeklyAsDataset(out_lines)

\* chunksize=500000, the default of aggregate_temporal
DefaultChunk == 500000

\* ---- calls ----

\* aggregate_temporal(in, out), lines 52-54: the default output path.
CallTemporal(in, out) ==
    /\ weekly_file' = IF out = "None" THEN Join(Parent(in), Stem(in) \o "_weekly.csv")
                                      ELSE out
    /\ tpc' = "start"

\* aggregate_spatial(in, dir, base_grid_size=bgs), lines 142-149.
CallSpatial(in, dir) ==
    /\ source' = in
    /\ spatial_dir' = IF dir = "None" THEN Join(Parent(in), "spatial_scales") ELSE PathOf(dir)
    /\ dataset' = ReadForSpatial(in)
    /\ spc' = "start"

\* ---- aggregate_temporal_and_spatial ----

AlwaysInput(m, in, weekly) == in

\* Lines 369-374: the file handed to the spatial stage.
SpatialInput(m, in, weekly) == IF m.spatial_only THEN in ELSE weekly

\* Lines 353-358: the base directory of the outputs.
BaseDir(in, out) == IF out = "None" THEN Join(Parent(in), "aggregated_data") ELSE PathOf(out)

\* Lines 353-381 up to the first call: the temporal stage unless
\* spatial_only; otherwise the return of temporal_only or the spatial stage.
WorkflowStart ==
    /\ mpc = "workflow"
    /\ output_dir' = BaseDir(input_file, output_dir)
    /\ IF ~mode.spatial_only
       THEN /\ CallTemporal(input_file,
                            Join(BaseDir(input_file, output_dir),
                                 Stem(input_file) \o "_weekly.csv"))
            /\ mpc' = "workflow:temporal"
            /\ UNCHANGED <<source, spatial_dir, dataset, spc>>
       ELSE /\ weekly_file' = input_file
            /\ UNCHANGED tpc
            /\ IF mode.temporal_only
               THEN /\ mpc' = "returned"
                    /\ UNCHANGED <<source, spatial_dir, dataset, spc>>
               ELSE /\ CallSpatial(SpatialInput(mode, input_file, input_file),
                                   Join(BaseDir(input_file, output_dir), "spatial_scales"))
                    /\ mpc' = "workflow:spatial"
    /\ UNCHANGED <<argv, in_exists, input_file, mode, base_grid_size, summary, exit_code,
                   input, in_cols, chunksize, pos, prev_tail, header_written, out_exists,
                   out_lines, chunks, trun, prev_out,
                   impl, scale_level, df, coord_unit, todo, level, metadata, output_files,
                   disk, prev_disk, run, raised, balVars, wrVars>>

\* Lines 372-381, after aggregate_temporal has returned.
WorkflowAfterTemporal ==
    /\ mpc = "workflow:temporal"
    /\ tpc = "done"
    /\ IF mode.temporal_only
       THEN /\ mpc' = "returned"
            /\ UNCHANGED <<source, spatial_dir, dataset, spc>>
       ELSE /\ CallSpatial(SpatialInput(mode, input_file, weekly_file),
                           Join(output_dir, "spatial_scales"))
            /\ mpc' = "workflow:spatial"
    /\ UNCHANGED <<argv, in_exists, input_file, mode, output_dir, base_grid_size,
                   weekly_file, summary, exit_code, tmpVars,
                   impl, scale_level, df, coord_unit, todo, level, metadata, output_files,
                   disk, prev_disk, run, raised, balVars, wrVars>>

\* Lines 383-401, after aggregate_spatial has returned: the summary file.
\* results['weekly_file'] is None when the temporal stage was skipped.
WorkflowSummary ==
    /\ mpc = "workflow:spatial"
    /\ spc = "done"
    /\ summary' = [exists |-> TRUE,
                   source |-> input_file,
                   weekly |-> IF mode.spatial_only THEN "None" ELSE weekly_file,
                   files |-> DOMAIN output_files]
    /\ mpc' = "returned"
    /\ UNCHANGED <<argv, in_exists, input_file, mode, output_dir, base_grid_size,
                   weekly_file, spatial_dir, source, exit_code,
                   balVars, tmpVars, spaVars, wrVars>>

\* An exception of a stage passes through aggregate_temporal_and_spatial.
WorkflowRaise ==
    /\ \/ mpc = "workflow:temporal" /\ tpc = "error"
       \/ mpc = "workflow:spatial" /\ spc = "error"
    /\ mpc' = "raised"
    /\ UNCHANGED <<argv, in_exists, input_file, mode, output_dir, base_grid_size,
                   weekly_file, spatial_dir, source, summary, exit_code,
                   balVars, tmpVars, spaVars, wrVars>>

\* The states of the stages before a call.
StagesIdle ==
    /\ input \in PlainInputs
    /\ in_cols = DailyCols
    /\ chunksize = DefaultChunk
    /\ pos = 0
    /\ prev_tail = <<>>
    /\ header_written = FALSE
    /\ out_exists = FALSE
    /\ out_lines = <<>>
    /\ chunks = <<>>
    /\ tpc = "idle"
    /\ trun = 1
    /\ prev_out = <<>>
    /\ SpaIdle
    /\ BalIdle
    /\ WrIdle

\* A direct call of aggregate_temporal_and_spatial on the daily file.
WorkflowInit ==
    /\ StagesIdle
    /\ argv = <<>>
    /\ in_exists = TRUE
    /\ input_file = InputPath
    /\ mode \in [temporal_only : BOOLEAN, spatial_only : BOOLEAN]
    /\ output_dir \in {"None", "out/"}
    /\ base_grid_size \in {8, 16}
    /\ weekly_file = "None"
    /\ spatial_dir = "None"
    /\ source = "None"
    /\ summary = [exists |-> FALSE]
    /\ mpc = "workflow"
    /\ exit_code = -1

StageNext ==
    \/ TemporalStart
    \/ ReadChunk
    \/ FlushLast
    \/ SpatialStart
    \/ ProcessLevel
    \/ WriteMetadata

WorkflowNext ==
    \/ WorkflowStart
    \/ WorkflowAfterTemporal
    \/ WorkflowSummary
    \/ WorkflowRaise
    \/ StageNext

WorkflowSpec == WorkflowInit /\ [][WorkflowNext]_vars

\* ---- main ----

Program == "aggregate.py"

Option == "--base-grid-size"

\* sys.argv[k]
Arg(k) == argv[k + 1]

\* '--base-grid-size' in sys.argv
HasOption == \E i \in 1..Len(argv) : argv[i] = Option

\* sys.argv.index('--base-grid-size')
OptionIndex ==
    (CHOOSE i \in 1..Len(argv) : argv[i] = Option /\ \A j \in 1..(i - 1) : argv[j] # Option) - 1

\* Lines 457-459: the option is followed by a value.
HasOptionValue == HasOption /\ OptionIndex + 1 < Len(argv)

ExitAlwaysZero(failed) == 0

\* The exit status of the process: 1 after sys.exit(1) or an uncaught
\* exception, 0 when main returns.
ExitStatus(failed) == IF failed THEN 1 ELSE 0

\* Lines 419-476 up to the call of a stage or sys.exit(1).
Main ==
    /\ mpc = "main"
    /\ IF \/ Len(argv) < 2
          \/ Len(argv) < 3
          \/ HasOptionValue /\ ~IsInt(Arg(OptionIndex + 1))
          \/ ~in_exists
          \/ Lower(Arg(1)) \notin {"temporal", "spatial", "both"}
       THEN /\ exit_code' = ExitStatus(TRUE)
            /\ mpc' = "exit"
            /\ UNCHANGED <<input_file, output_dir, base_grid_size, weekly_file,
                           spatial_dir, source, dataset, tpc, spc>>
       ELSE LET out == IF Len(argv) > 3 THEN Arg(3) ELSE "None"
            IN /\ input_file' = Arg(2)
               /\ base_grid_size' = IF HasOptionValue THEN IntOf(Arg(OptionIndex + 1)) ELSE 8
               /\ UNCHANGED exit_code
               /\ IF Lower(Arg(1)) = "temporal"
                  THEN /\ CallTemporal(Arg(2), out)
                       /\ mpc' = "temporal"
                       /\ UNCHANGED <<output_dir, spatial_dir, source, dataset, spc>>
                  ELSE IF Lower(Arg(1)) = "spatial"
                  THEN /\ CallSpatial(Arg(2), out)
                       /\ mpc' = "spatial"
                       /\ UNCHANGED <<output_dir, weekly_file, tpc>>
                  ELSE /\ output_dir' = out
                       /\ mpc' = "workflow"
                       /\ UNCHANGED <<weekly_file, spatial_dir, source, dataset, tpc, spc>>
    /\ UNCHANGED <<argv, in_exists, mode, summary,
                   input, in_cols, chunksize, pos, prev_tail, header_written, out_exists,
                   out_lines, chunks, trun, prev_out,
                   impl, scale_level, df, coord_unit, todo, level, metadata, output_files,
                   disk, prev_disk, run, raised, balVars, wrVars>>

\* The stage called by main has returned or raised: the process ends.
MainReturn ==
    /\ argv # <<>>
    /\ \/ mpc = "temporal" /\ tpc \in {"done", "error"}
          /\ exit_code' = ExitStatus(tpc = "error")
       \/ mpc = "spatial" /\ spc \in {"done", "error"}
          /\ exit_code' = ExitStatus(spc = "error")
       \/ mpc \in {"returned", "raised"}
          /\ exit_code' = ExitStatus(mpc = "raised")
    /\ mpc' = "exit"
    /\ UNCHANGED <<argv, in_exists, input_file, mode, output_dir, base_grid_size,
                   weekly_file, spatial_dir, source, summary,
                   balVars, tmpVars, spaVars, wrVars>>

Commands == {"temporal", "spatial", "both", "Both", "merge"}

\* What follows the input file on the command line.
ArgTails ==
    {<<>>, <<"out">>, <<Option, "16">>, <<"out", Option, "16">>, <<Option>>,
     <<"out", Option, "x">>}

CommandLines ==
    {<<Program>>}
    \cup {<<Program, c>> : c \in Commands}
    \cup {<<Program, c, InputPath>> \o t : <<c, t>> \in Commands \X ArgTails}

MainInit ==
    /\ StagesIdle
    /\ argv \in CommandLines
    /\ in_exists \in BOOLEAN
    /\ input_file = "None"
    /\ mode = [temporal_only |-> FALSE, spatial_only |-> FALSE]
    /\ output_dir = "None"
    /\ base_grid_size = 8
    /\ weekly_file = "None"
    /\ spatial_dir = "None"
    /\ source = "None"
    /\ summary = [exists |-> FALSE]
    /\ mpc = "main"
    /\ exit_code = -1

MainNext == Main \/ MainReturn \/ WorkflowNext

MainSpec == MainInit /\ [][MainNext]_vars

\* ---- a killed temporal stage and a later spatial run ----

\* The process is killed while aggregate_temporal streams (between two
\* steps of lines 63-110): the weekly file stays as it is.
Kill ==
    /\ mpc = "workflow:temporal"
    /\ tpc = "loop"
    /\ tpc' = "killed"
    /\ mpc' = "killed"
    /\ UNCHANGED <<argv, in_exists, input_file, mode, output_dir, base_grid_size,
                   weekly_file, spatial_dir, source, summary, exit_code,
                   input, in_cols, chunksize, pos, prev_tail, header_written, out_exists,
                   out_lines, chunks, trun, prev_out, balVars, spaVars, wrVars>>

\* A later process calls aggregate_temporal_and_spatial(weekly_file,
\* output_base_dir, spatial_only=True) on the weekly file the killed run
\* left behind (what the command 'spatial' does on that file, too).
SpatialOnlyLater ==
    /\ mpc = "killed"
    /\ out_exists
    /\ input_file' = weekly_file
    /\ mode' = [temporal_only |-> FALSE, spatial_only |-> TRUE]
    /\ mpc' = "workflow"
    /\ UNCHANGED <<argv, in_exists, output_dir, base_grid_size, weekly_file, spatial_dir,
                   source, summary, exit_code, balVars, tmpVars, spaVars, wrVars>>

KilledNext == WorkflowNext \/ Kill \/ SpatialOnlyLater

KilledSpec == WorkflowInit /\ [][KilledNext]_vars

(***************************************************************************)
(* Claims on the spatial aggregation.                                      *)
(***************************************************************************)
\* The grid columns of df hold the assignment of `level`.
GridReady == spc = "levels" /\ level \in DOMAIN output_files /\ Len(df) > 0

ScriptsReady == GridReady /\ impl = "scripts"

CurGrid == GridSizeMeters(ScaleOf(level))

SameBin(a, b, w) == a \div w = b \div w

\* The cell a record at (x, y) gets at the current level when the unit
\* factor is cu.
CellUnder(x, y, cu) == <<((x * cu) \div CurGrid) * CurGrid, ((y * cu) \div CurGrid) * CurGrid>>

\* A record that another input file may hold besides those of this one.
ExtraRows ==
    {InputRow(i, t, u) : i \in 1..Len(PointsKm), t \in TimeBuckets, u \in {"km", "m"}}

\* C6 as stated: the cell_id of a record is a function of its coordinates
\* and the scale only: the record gets the same cell_id in every input file
\* that holds it.
C6_Original ==
    ScriptsReady =>
        \A e \in ExtraRows : \A i \in 1..Len(df) :
            df[i].grid_cell
                = CellUnder(df[i].x, df[i].y, DetectUnit(Append(dataset.rows, e)))

\* C6 amended: for a fixed scale and a fixed detected unit (within one run)
\* the cell_id is a function of the coordinates only: equal coordinates get
\* equal cell_id, coordinates in the same half-open bin on both axes get
\* equal cell_id, and the cell_id is that of the record's own coordinates
\* whatever the order of the records and the levels processed before.
C6_Deterministic ==
    ScriptsReady =>
        /\ \A i, j \in 1..Len(df) :
              /\ (df[i].x = df[j].x /\ df[i].y = df[j].y)
                    => df[i].grid_cell = df[j].grid_cell
              /\ (SameBin(df[i].X_meters, df[j].X_meters, CurGrid)
                  /\ SameBin(df[i].Y_meters, df[j].Y_meters, CurGrid))
                    => df[i].grid_cell = df[j].grid_cell
        /\ \A i \in 1..Len(df) :
              df[i].grid_cell = CellUnder(df[i].x, df[i].y, coord_unit)

\* A later level of a full run, on a file read in descending order, with
\* two records at different coordinates in one cell.
C6_Witness ==
    /\ ScriptsReady
    /\ scale_level = -1
    /\ level >= 1
    /\ Len(df) >= 2
    /\ df[1].point > df[2].point
    /\ df[1].grid_cell = df[2].grid_cell

\* C7. Floor binning with centre representative: the lower edge of a
\* record's cell is floor(coord / S) * S on each axis, the representative
\* is that edge plus S/2 (given in the unit of the input in the artifact),
\* and rep - S/2 <= coord < rep + S/2; a coordinate on a bin edge is in the
\* upper bin, also when negative.  S is the bin width in the unit of the
\* converted coordinates.
C7_FloorCenter ==
    ScriptsReady =>
        \A i \in 1..Len(df) :
            LET r == df[i]
                art == output_files[level]
            IN /\ r.grid_x <= r.X_meters /\ r.X_meters < r.grid_x + CurGrid
               /\ r.grid_y <= r.Y_meters /\ r.Y_meters < r.grid_y + CurGrid
               /\ r.grid_x % CurGrid = 0 /\ r.grid_y % CurGrid = 0
               /\ 2 * r.grid_x_center = 2 * r.grid_x + CurGrid
               /\ 2 * r.grid_y_center = 2 * r.grid_y + CurGrid
               /\ 2 * r.grid_x_center - CurGrid <= 2 * r.X_meters
               /\ 2 * r.X_meters < 2 * r.grid_x_center + CurGrid
               /\ 2 * r.grid_y_center - CurGrid <= 2 * r.Y_meters
               /\ 2 * r.Y_meters < 2 * r.grid_y_center + CurGrid
               /\ (r.X_meters % CurGrid = 0 => r.grid_x = r.X_meters)
               /\ \E n \in 1..Len(art) :
                     /\ art[n].grid_cell = r.grid_cell
                     /\ art[n].t = r.t
                     /\ art[n].LAMBX = Rat(r.grid_x_center, coord_unit)
                     /\ art[n].LAMBY = Rat(r.grid_y_center, coord_unit)

\* A record on a negative bin edge, and one inside a bin.
C7_Witness ==
    /\ ScriptsReady
    /\ \E i, j \in 1..Len(df) :
          /\ df[i].X_meters < 0
          /\ df[i].X_meters % CurGrid = 0
          /\ df[j].X_meters % CurGrid # 0

\* Units of the binned coordinates per km of grid width.
PerKm == IF impl = "scripts" THEN 10 ELSE 1000

BinX(r) == IF impl = "scripts" THEN r.X_meters ELSE r.x

BinY(r) == IF impl = "scripts" THEN r.Y_meters ELSE r.y

\* The cell of a record on the 16 km grid.
Cell16(r) ==
    IF impl = "scripts"
    THEN CellId(GridFloor(r.X_meters, GridSizeMeters(16)), GridFloor(r.Y_meters, GridSizeMeters(16)))
    ELSE LegacyGridRow(r, 16).grid_cell

DistSq(a, b) == (BinX(a) - BinX(b)) * (BinX(a) - BinX(b)) + (BinY(a) - BinY(b)) * (BinY(a) - BinY(b))

\* The two records are km kilometres apart (Euclidean distance).
Apart(a, b, km) ==
    /\ Abs(BinX(a) - BinX(b)) <= km * PerKm
    /\ Abs(BinY(a) - BinY(b)) <= km * PerKm
    /\ DistSq(a, b) = (km * PerKm) * (km * PerKm)

AxisApart(a, b, km) ==
    \/ Abs(BinX(a) - BinX(b)) >= km * PerKm
    \/ Abs(BinY(a) - BinY(b)) >= km * PerKm

Loaded == spc = "levels" /\ Len(df) > 0

C9_Claim ==
    ScriptsReady =>
        LET w == ScaleOf(level) * UnitsPerKm(dataset.unit)
        IN \A i, j \in 1..Len(df) :
              (df[i].grid_cell = df[j].grid_cell)
                 <=> (SameBin(df[i].x, df[j].x, w) /\ SameBin(df[i].y, df[j].y, w))

\* C10. Every output row of a level carries the arithmetic means over
\* exactly the records of its cell and time bucket, point_count is the
\* number of those records (one per constituent point), every record is
\* counted in exactly one row, and per bucket the point_counts sum to the
\* number of records of the bucket.
C10_MeansAndCounts ==
    GridReady =>
        LET art == output_files[level]
            M(n) == {i \in 1..Len(df) : df[i].grid_cell = art[n].grid_cell /\ df[i].t = art[n].t}
            Total(c, I) == SumSeq(AtIndices([i \in 1..Len(df) |-> df[i][c]], I))
            rowsOf(t) == {n \in 1..Len(art) : art[n].t = t}
        IN /\ \A n \in 1..Len(art) :
                 /\ M(n) # {}
                 /\ art[n].point_count = Cardinality(M(n))
                 /\ art[n].point_count = Cardinality({df[i].point : i \in M(n)})
                 /\ \A c \in MetricCols :
                       art[n][c][1] * Cardinality(M(n)) = Total(c, M(n)) * art[n][c][2]
           /\ \A i \in 1..Len(df) : Cardinality({n \in 1..Len(art) : i \in M(n)}) = 1
           /\ \A t \in TimeBuckets :
                 SumSeq(AtIndices([n \in 1..Len(art) |-> art[n].point_count], rowsOf(t)))
                    = Cardinality({i \in 1..Len(df) : df[i].t = t})

\* A level of src/scripts/aggregate.py with a cell of two points whose
\* means differ from both records, next to a record of another bucket.
C10_Witness ==
    /\ ScriptsReady
    /\ \E n \in 1..Len(output_files[level]) :
          /\ output_files[level][n].point_count = 2
          /\ output_files[level][n].Stock = <<45, 1>>

(***************************************************************************)
(* Claims on the runs of aggregate_spatial.                                *)
(***************************************************************************)
\* The artifact of level lv computed from the input file alone.
AloneArtifact(lv) ==
    LET cu == DetectUnit(dataset.rows)
        gs == GridSizeMeters(ScaleOf(lv))
    IN Aggregated([i \in 1..Len(dataset.rows) |->
                      GridRow(LoadedRow(dataset.rows[i], cu), gs)], cu)

\* C11. Level independence: once the file is loaded, the records' point,
\* coordinates, time bucket, P, ETP, Stock and Gap stay those of the input
\* whatever levels were processed, and the artifact written for a level is
\* the one computed from the input alone, whether the level was requested
\* alone or reached as part of the full set, whatever was processed before.
C11_LevelIndependent ==
    /\ coord_unit # 0 =>
          /\ Len(df) = Len(dataset.rows)
          /\ \A i \in 1..Len(df) : CleanRow(df[i]) = dataset.rows[i]
    /\ \A lv \in DOMAIN output_files :
          LET alone == AloneArtifact(lv)
          IN output_files[lv] = alone /\ disk[lv] = alone

\* A full run has reached level_3, whose grid merges two records that
\* level_0 keeps apart.
C11_Witness ==
    /\ spc = "levels"
    /\ scale_level = -1
    /\ {0, 3} \subseteq DOMAIN output_files
    /\ Len(output_files[3]) < Len(output_files[0])

\* a sorted by (cell_id, time bucket), strictly.
SortedArtifact(a) ==
    \A n, m \in 1..Len(a) :
        n < m => CellKeyLess(<<a[n].grid_cell, a[n].t>>, <<a[m].grid_cell, a[m].t>>)

\* C12. Spatial idempotence: in a second run on the same input and scale
\* level(s), every artifact written is, once written, identical to what the
\* first run left (rows, row order, values), no other artifact appears or
\* changes, and every artifact is sorted by (cell_id, time bucket).
C12_Idempotent ==
    /\ \A lv \in DOMAIN disk : SortedArtifact(disk[lv])
    /\ run = 2 =>
          /\ DOMAIN disk = DOMAIN prev_disk
          /\ \A lv \in DOMAIN disk :
                (lv \in DOMAIN output_files \/ spc = "start") => disk[lv] = prev_disk[lv]
          /\ spc \in {"done", "error"} => disk = prev_disk

\* The second run has ended, having rewritten an artifact of several rows.
C12_Witness ==
    /\ run = 2
    /\ spc = "done"
    /\ \E lv \in DOMAIN output_files : Len(disk[lv]) >= 2

\* C20 as stated: a scale_level that is none of the 7 levels (and not
\* None) makes aggregate_spatial fail with an error that reports the valid
\* levels, and no artifact and no metadata file is created or modified.
C20_Claim ==
    (scale_level \notin Levels /\ scale_level # -1 /\ spc # "start") =>
        /\ spc = "error"
        /\ raised = InvalidScaleLevel
        /\ disk = prev_disk
        /\ ~metadata.exists

\* C25 as stated: the metadata file of src/scripts/aggregate.py records the
\* coordinate unit detected for the input (kilometres when the kilometre
\* branch of lines 213-216 was taken, metres otherwise), the source file
\* and the resolution of every scale level.
C25_Claim ==
    (impl = "scripts" /\ spc = "done") =>
        /\ metadata.unit = IF coord_unit = 10 THEN "kilometers" ELSE "meters"
        /\ metadata.source = source
        /\ \A lv \in Levels : metadata.scales[lv] = Scales[lv + 1]

\* C29 as stated: whenever the header has 'day' or 'week' (or both), the
\* time column detected is the column used for grouping, for the output
\* columns and for the final sort, so no level fails on the sort.
C29_Claim ==
    (impl = "scripts" /\ dataset.cols # {} /\ spc # "start") =>
        /\ TimeCol(dataset.cols) = GroupCol(dataset.cols)
        /\ raised # SortKeyError

\* C21. Input schema error: a run of aggregate_spatial on a file without a
\* time column or without a coordinate column, and a run of
\* aggregate_temporal on a file without the 'day' column or without a
\* coordinate column, never completes and writes nothing: no per-level
\* artifact, no metadata file and no weekly file.
C21_NoOutput ==
    /\ (spc # "idle" /\ (dataset.cols = {} \/ dataset.coords # CoordCols)) =>
          /\ spc # "done"
          /\ output_files = <<>>
          /\ disk = <<>>
          /\ ~metadata.exists
    /\ (tpc \notin {"idle", "start"} /\ ~(DailyCols \subseteq in_cols)) =>
          /\ tpc # "done"
          /\ ~out_exists
          /\ out_lines = <<>>
          /\ ~header_written

\* A run aborted on a file with rows: aggregate_spatial on a header without
\* a coordinate column, or aggregate_temporal on a header without 'day'
\* after it removed the output of an earlier run.
C21_Witness ==
    \/ /\ spc = "error"
       /\ raised = MissingCoordinate
       /\ Len(dataset.rows) > 0
    \/ /\ tpc = "error"
       /\ "day" \notin in_cols
       /\ Len(input) > chunksize

\* C27. Killed-run prefix: in every state the streaming aggregate_temporal
\* can be stopped in, the output file is absent, or it is the header line
\* followed by weekly rows only; these rows are a prefix of the rows of a
\* completed run; and every point that has a row in the file has all of its
\* weekly rows there, with the means over all of its days.
C27_KilledPrefix ==
    LET rows == DataRows(out_lines)
        whole == WholeAgg
        written == {r.point : r \in Range(rows)}
    IN /\ ~out_exists => out_lines = <<>>
       /\ out_exists =>
             /\ out_lines # <<>>
             /\ IsHeader(out_lines[1])
             /\ \A i \in 2..Len(out_lines) : ~IsHeader(out_lines[i])
       /\ rows # <<>> =>
             /\ Len(rows) <= Len(whole)
             /\ \A i \in 1..Len(rows) : rows[i] = whole[i]
             /\ \A i \in 1..Len(whole) : whole[i].point \in written => i <= Len(rows)

\* Stopped mid-stream: the file holds the rows of some points while rows of
\* other points are still to be written, and a written point has several
\* weekly rows.
C27_Witness ==
    /\ tpc = "loop"
    /\ pos < Len(input)
    /\ Len(DataRows(out_lines)) > 0
    /\ Len(DataRows(out_lines)) < Len(WholeAgg)
    /\ \E i, j \in 1..Len(DataRows(out_lines)) :
          i # j /\ DataRows(out_lines)[i].point = DataRows(out_lines)[j].point

\* C28 as stated: at every chunk boundary the carry holds rows of a single
\* point, the last point of the chunk just processed, and all rows of that
\* point read so far; and for every input longer than one chunk, also one
\* whose rows all belong to one point, the rows held are never the whole
\* input.
C28_Claim ==
    (tpc = "loop" /\ pos > 0) =>
        /\ \A r \in Range(prev_tail) : r.point = input[pos].point
        /\ prev_tail = ReadSoFarOfLastPoint
        /\ Len(input) > chunksize => Len(prev_tail) < Len(input)

\* C26 as stated: for a daily file with copies of the header line among the
\* rows, at any positions, aggregate_temporal completes whenever the file
\* has a data row, and the weekly rows written are those of the file
\* without the copies.
C26_Claim ==
    LET clean == DropStray(input)
    IN /\ (tpc = "error" /\ Len(input) > Len(clean)) => clean = <<>>
       /\ (tpc = "done" /\ Len(input) > Len(clean)) =>
             BagOf(DataRows(out_lines)) = BagOf(GroupMean(MapWithWeek(clean)))

(***************************************************************************)
(* Claims on the combined workflow and the command line.                   *)
(***************************************************************************)
\* C22. Stage sequencing in aggregate_temporal_and_spatial: in the default
\* mode the spatial stage is started only when the temporal stage has
\* returned, with the path and the content of the weekly file that stage
\* wrote; with spatial_only the temporal stage is never started and the
\* spatial stage gets the input file unchanged; with temporal_only the
\* spatial stage is never started and no artifact, no metadata file and no
\* summary file is written.
C22_Sequencing ==
    /\ (~mode.spatial_only /\ spc # "idle") =>
          /\ tpc = "done"
          /\ source = weekly_file
          /\ source # input_file
          /\ out_exists
          /\ dataset = WeeklyAsDataset(out_lines)
    /\ mode.spatial_only =>
          /\ tpc = "idle"
          /\ ~out_exists
          /\ spc # "idle" => (source = input_file /\ dataset = DailyAsDataset(input))
    /\ mode.temporal_only =>
          /\ spc = "idle"
          /\ disk = <<>>
          /\ ~metadata.exists
          /\ ~summary.exists

\* C23 as stated: the spatial stage reads a weekly file only when the run
\* of aggregate_temporal that streamed it is known to have completed; a
\* file left by a killed run is not aggregated.
C23_Claim ==
    (spc \notin {"idle", "start"} /\ source # InputPath) => tpc = "done"

\* The default mode has run to its end on a file with several points: the
\* spatial stage has aggregated the weekly file and the summary is written.
C22_Witness ==
    /\ mode = [temporal_only |-> FALSE, spatial_only |-> FALSE]
    /\ mpc = "returned"
    /\ summary.exists
    /\ Len(DataRows(out_lines)) > 1
    /\ DOMAIN disk = Levels

\* The command of the command line is missing, the input file is missing
\* or does not exist, or the command is none of the three.
UsageError ==
    \/ Len(argv) < 3
    \/ ~in_exists
    \/ Lower(Arg(1)) \notin {"temporal", "spatial", "both"}

NothingWritten ==
    /\ ~out_exists
    /\ out_lines = <<>>
    /\ disk = <<>>
    /\ ~metadata.exists
    /\ ~summary.exists

\* C24. CLI exit codes: without a command, without an input file, with an
\* input file that does not exist or with an unknown command, main starts
\* no stage, writes no file and exits with status 1; with a valid command,
\* an existing daily file with rows and a well-formed option value, the
\* stages of the command have run to their end when the process exits,
\* and the status is 0.
C24_ExitCodes ==
    /\ UsageError =>
          /\ mpc \in {"main", "exit"}
          /\ tpc = "idle"
          /\ spc = "idle"
          /\ NothingWritten
          /\ mpc = "exit" => exit_code = 1
    /\ (~UsageError /\ mpc = "exit" /\ Len(input) > 0
          /\ (HasOptionValue => IsInt(Arg(OptionIndex + 1)))) =>
          /\ exit_code = 0
          /\ Lower(Arg(1)) = "temporal" => (tpc = "done" /\ spc = "idle")
          /\ Lower(Arg(1)) = "spatial" => (tpc = "idle" /\ spc = "done")
          /\ Lower(Arg(1)) = "both" => (tpc = "done" /\ spc = "done" /\ summary.exists)

\* The command 'both', written with a capital, has run both stages with the
\* option value 16 and exited with status 0.
C24_Witness ==
    /\ mpc = "exit"
    /\ exit_code = 0
    /\ Len(argv) > 3
    /\ Arg(1) = "Both"
    /\ base_grid_size = 16
    /\ summary.exists
    /\ DOMAIN disk = Levels

\* C30 as stated: the third positional argument is the output path only
\* when it is not the option '--base-grid-size', so 'spatial <input>
\* --base-grid-size N' writes to the default output directory.
C30_Claim ==
    (Len(argv) > 3 /\ Arg(3) = Option /\ Lower(Arg(1)) = "spatial" /\ spc # "idle") =>
        spatial_dir = Join(Parent(Arg(2)), "spatial_scales")
====
